---- MODULE Spec2Model ----
(***************************************************************************)
(* Model of the neural-ai-sdk provider adapters: request-to-payload        *)
(* adaptation, response normalisation, error rewriting and the extraction  *)
(* of function calls from generated text.                                  *)
(*                                                                         *)
(* Text is modelled as a sequence of tokens (TLA+ strings are atoms): a    *)
(* token is a punctuation mark, a quoted JSON string, a word or a fixed    *)
(* phrase of a message template.  String.includes(w) is "w occurs as a     *)
(* token"; the marker words the code searches for are tokens of their own. *)
(***************************************************************************)
EXTENDS Integers, Sequences, FiniteSets, TLC

VARIABLES
  adapter,    \* the adapter the call runs on
  instCfg,    \* configuration given to the adapter's constructor
  req,        \* the AIModelRequest of the call
  pc,         \* position of the call
  calls,      \* backend requests issued so far, in order, with their replies
  errors,     \* HuggingFaceModel.generateWithImages: errors collected so far
  outcome,    \* what generate resolved to or rejected with
  events,     \* image resolutions and backend requests of the call, in order
  exText,     \* extractor run: the generated text
  exDirective,\* extractor run: the functionCall directive of the request
  exHF,       \* extractor run: what the HuggingFace extractor returned
  exOllama,   \* extractor run: what the Ollama extractor returned
  exGoogle,   \* extractor run: what the Google extractor returned
  stream,     \* HuggingFaceModel.stream: position and chunks yielded so far
  creds,      \* apiKey and baseURL in request.options, in the constructor's
              \* config and in the environment
  util,       \* a run of processImage or of NeuralAI.createModel: its input
              \* and what it returned or threw
  parked      \* a second call on the same instance: its locals while it is
              \* suspended, and the configuration the instance was built with

callVars == <<adapter, instCfg, req, pc, calls, errors, outcome, events>>
exVars == <<exText, exDirective, exHF, exOllama, exGoogle>>
otherVars == <<stream, creds, parked, util>>
vars == <<callVars, exVars, otherVars>>

(***************************************************************************)
(* JavaScript values                                                       *)
(***************************************************************************)
NULL == "null"

Undef == [t |-> "undefined", v |-> <<>>]
Null == [t |-> "null", v |-> <<>>]
Str(s) == [t |-> "string", v |-> s]
\* an object body {error: <s>}
ErrObj(s) == [t |-> "object", v |-> s]

\* truthiness of a value used in `a || b`
Truthy(x) ==
  CASE x.t = "undefined" -> FALSE
    [] x.t = "null" -> FALSE
    [] x.t = "string" -> x.v # <<>>
    [] OTHER -> TRUE

\* String.prototype.includes, on tokens
Includes(s, w) == \E i \in 1..Len(s) : s[i] = w

\* String.prototype.toLowerCase, on tokens
LowerTok(w) ==
  CASE w = "Vision" -> "vision"
    [] w = "Unsupported" -> "unsupported"
    [] w = "Model" -> "model"
    [] w = "Not" -> "not"
    [] OTHER -> w

ToLowerCase(s) == [i \in 1..Len(s) |-> LowerTok(s[i])]

\* `${x}` in a template literal
Interp(x) ==
  CASE x.t = "string" -> x.v
    [] x.t = "object" -> <<"[object Object]">>
    [] x.t = "null" -> <<"null">>
    [] OTHER -> <<"undefined">>

\* s occurs in m as a contiguous run of tokens
Contains(m, s) ==
  \E i \in 0..(Len(m) - Len(s)) : \A j \in 1..Len(s) : m[i + j] = s[j]

(***************************************************************************)
(* Generated text: tokens are records [k, s]                               *)
(*   k = "p"   punctuation  { } : , ( )                                    *)
(*   k = "str" a double-quoted string without quotes or braces inside,     *)
(*             s is its content                                            *)
(*   k = "esc" the same string with its quotes escaped (\"...\")           *)
(*   k = "id"  a run of [a-zA-Z0-9_]; k = "num" a run of digits            *)
(*   k = "sp"  blanks, k = "nl" a newline, k = "fence" three backticks     *)
(*   k = "dq"  a lone double quote                                         *)
(***************************************************************************)
P(c) == [k |-> "p", s |-> c]
S(c) == [k |-> "str", s |-> c]
Id(c) == [k |-> "id", s |-> c]
Num(c) == [k |-> "num", s |-> c]
LB == P("{")
RB == P("}")
COLON == P(":")
COMMA == P(",")
LPAR == P("(")
RPAR == P(")")
SP == [k |-> "sp", s |-> " "]
NL == [k |-> "nl", s |-> "\n"]
FENCE == [k |-> "fence", s |-> "fence"]
DQ == [k |-> "dq", s |-> "\""]
EOT == [k |-> "eot", s |-> ""]

At(s, i) == IF i \in 1..Len(s) THEN s[i] ELSE EOT

IsWs(t) == t.k \in {"sp", "nl"}

\* index of the first token at or after i that is no whitespace (\s*)
RECURSIVE SkipWs(_, _)
SkipWs(s, i) == IF i <= Len(s) /\ IsWs(s[i]) THEN SkipWs(s, i + 1) ELSE i

\* index of the first token equal to t at or after i, 0 when there is none
RECURSIVE FirstAt(_, _, _)
FirstAt(s, t, i) ==
  IF i > Len(s) THEN 0 ELSE IF s[i] = t THEN i ELSE FirstAt(s, t, i + 1)

\* index of the last token equal to t, 0 when there is none
RECURSIVE LastOf(_, _, _)
LastOf(s, t, i) ==
  IF i < 1 THEN 0 ELSE IF s[i] = t THEN i ELSE LastOf(s, t, i - 1)

Slice(s, a, b) == IF a > b THEN <<>> ELSE SubSeq(s, a, b)

\* String.prototype.trim
RECURSIVE TrimRight(_)
TrimRight(s) ==
  IF s # <<>> /\ IsWs(s[Len(s)]) THEN TrimRight(SubSeq(s, 1, Len(s) - 1)) ELSE s

Trim(s) == TrimRight(Slice(s, SkipWs(s, 1), Len(s)))

CountOf(s, t) == Cardinality({i \in 1..Len(s) : s[i] = t})

\* "}".repeat(n)
RECURSIVE Braces(_)
Braces(n) == IF n <= 0 THEN <<>> ELSE <<RB>> \o Braces(n - 1)

(***************************************************************************)
(* JSON.parse on tokens: values are strings, numbers and objects.          *)
(* ParseValue returns the index after the value that starts at i, or 0.    *)
(***************************************************************************)
RECURSIVE ParseValue(_, _), ParseMembers(_, _)
ParseValue(s, i) ==
  IF At(s, i).k \in {"str", "num"} THEN i + 1
  ELSE IF At(s, i) = LB
    THEN LET j == SkipWs(s, i + 1)
         IN  IF At(s, j) = RB THEN j + 1 ELSE ParseMembers(s, j)
    ELSE 0

ParseMembers(s, j) ==
  IF At(s, j).k # "str" THEN 0
  ELSE LET c == SkipWs(s, j + 1)
       IN  IF At(s, c) # COLON THEN 0
           ELSE LET e == ParseValue(s, SkipWs(s, c + 1))
                IN  IF e = 0 THEN 0
                    ELSE LET n == SkipWs(s, e)
                         IN  IF At(s, n) = RB THEN n + 1
                             ELSE IF At(s, n) = COMMA
                               THEN ParseMembers(s, SkipWs(s, n + 1))
                               ELSE 0

\* JSON.parse(s) does not throw
IsJSON(s) ==
  LET e == ParseValue(s, SkipWs(s, 1))
  IN  e # 0 /\ SkipWs(s, e) = Len(s) + 1

\* JSON.stringify(JSON.parse(s)) for valid s without a repeated key: the
\* members in their order, without whitespace
Minify(s) == SelectSeq(s, LAMBDA t : ~IsWs(t))

\* a quoted string as it appears inside JSON.stringify of a string
EscTok(t) == IF t.k = "str" THEN [k |-> "esc", s |-> t.s] ELSE t

\* JSON.stringify of a string value
StringifyString(s) == <<DQ>> \o [i \in 1..Len(s) |-> EscTok(s[i])] \o <<DQ>>

\* JSON.stringify of the object {generated_text: <s>}
StringifyGenerated(s) ==
  <<LB, S("generated_text"), COLON>> \o StringifyString(s) \o <<RB>>

(***************************************************************************)
(* The regular expressions of the extractors, on tokens.  A match is a     *)
(* record: ok, the captured name, the captured span [from..to], and end,   *)
(* the index of the last token of the match.                               *)
(***************************************************************************)
NoMatch == [ok |-> FALSE, name |-> "", from |-> 1, to |-> 0, end |-> 0]

\* /\{\s*"name"\s*:\s*"([^"]+)"\s*,\s*"arguments"\s*:\s*([\s\S]*?)\}/ at i:
\* the lazy group ends before the first closing brace
JsonRegexAt(s, i) ==
  LET a == SkipWs(s, i + 1)
      b == SkipWs(s, a + 1)
      c == SkipWs(s, b + 1)
      d == SkipWs(s, c + 1)
      e == SkipWs(s, d + 1)
      f == SkipWs(s, e + 1)
      g == SkipWs(s, f + 1)
      close == FirstAt(s, RB, g)
  IN  IF /\ At(s, i) = LB
         /\ At(s, a) = S("name")
         /\ At(s, b) = COLON
         /\ At(s, c).k = "str" /\ At(s, c).s # ""
         /\ At(s, d) = COMMA
         /\ At(s, e) = S("arguments")
         /\ At(s, f) = COLON
         /\ close # 0
      THEN [ok |-> TRUE, name |-> s[c].s, from |-> g, to |-> close - 1,
            end |-> close]
      ELSE NoMatch

\* smallest c >= i with a closing brace at c followed by \s*\)
RECURSIVE CloseBeforeParen(_, _)
CloseBeforeParen(s, i) ==
  IF i > Len(s) THEN 0
  ELSE IF s[i] = RB /\ At(s, SkipWs(s, i + 1)) = RPAR THEN i
  ELSE CloseBeforeParen(s, i + 1)

\* /([a-zA-Z0-9_]+)\s*\(\s*(\{[\s\S]*?\})\s*\)/ at i
FunctionRegexAt(s, i) ==
  LET a == SkipWs(s, i + 1)
      b == SkipWs(s, a + 1)
      c == CloseBeforeParen(s, b + 1)
  IN  IF /\ At(s, i).k \in {"id", "num"}
         /\ At(s, a) = LPAR
         /\ At(s, b) = LB
         /\ c # 0
      THEN [ok |-> TRUE, name |-> s[i].s, from |-> b, to |-> c,
            end |-> SkipWs(s, c + 1)]
      ELSE NoMatch

\* smallest c >= i with a closing brace at c followed by \s*\n and a fence
RECURSIVE CloseBeforeFence(_, _)
CloseBeforeFence(s, i) ==
  IF i > Len(s) THEN 0
  ELSE LET e == SkipWs(s, i + 1)
       IN  IF s[i] = RB /\ At(s, e) = FENCE /\ e > i + 1 /\ s[e - 1] = NL
           THEN i
           ELSE CloseBeforeFence(s, i + 1)

\* /```(?:json)?\s*\n\s*(\{[\s\S]*?\})\s*\n```/ at i
MarkdownRegexAt(s, i) ==
  LET j == IF At(s, i + 1) = Id("json") THEN i + 2 ELSE i + 1
      w == SkipWs(s, j)
      c == CloseBeforeFence(s, w + 1)
  IN  IF /\ At(s, i) = FENCE
         /\ \E n \in j..(w - 1) : s[n] = NL
         /\ At(s, w) = LB
         /\ c # 0
      THEN [ok |-> TRUE, name |-> "", from |-> w, to |-> c,
            end |-> SkipWs(s, c + 1)]
      ELSE NoMatch

\* all matches of a global regular expression from position p on, left to
\* right and without overlap (RegExp.exec in a loop, String.matchAll)
RECURSIVE JsonMatches(_, _), FunctionMatches(_, _), MarkdownMatches(_, _)
JsonMatches(s, p) ==
  IF p > Len(s) THEN <<>>
  ELSE LET m == JsonRegexAt(s, p)
       IN  IF m.ok THEN <<m>> \o JsonMatches(s, m.end + 1)
           ELSE JsonMatches(s, p + 1)

FunctionMatches(s, p) ==
  IF p > Len(s) THEN <<>>
  ELSE LET m == FunctionRegexAt(s, p)
       IN  IF m.ok THEN <<m>> \o FunctionMatches(s, m.end + 1)
           ELSE FunctionMatches(s, p + 1)

MarkdownMatches(s, p) ==
  IF p > Len(s) THEN <<>>
  ELSE LET m == MarkdownRegexAt(s, p)
       IN  IF m.ok THEN <<m>> \o MarkdownMatches(s, m.end + 1)
           ELSE MarkdownMatches(s, p + 1)

\* the value of the last member named key of the JSON object s (JSON.parse
\* keeps the last of repeated keys): [found, from, to]
RECURSIVE MemberFrom(_, _, _, _)
MemberFrom(s, j, key, acc) ==
  IF At(s, j).k # "str" THEN acc
  ELSE LET c == SkipWs(s, j + 1)
           v == SkipWs(s, c + 1)
           e == ParseValue(s, v)
           n == SkipWs(s, e)
           hit == IF s[j].s = key
                  THEN [found |-> TRUE, from |-> v, to |-> e - 1]
                  ELSE acc
       IN  IF At(s, n) = COMMA THEN MemberFrom(s, SkipWs(s, n + 1), key, hit)
           ELSE hit

Member(s, key) ==
  LET i == SkipWs(s, 1)
  IN  IF At(s, i) = LB
      THEN MemberFrom(s, SkipWs(s, i + 1), key,
                      [found |-> FALSE, from |-> 1, to |-> 0])
      ELSE [found |-> FALSE, from |-> 1, to |-> 0]

\* truthiness of the member m of s
MemberTruthy(s, m) ==
  /\ m.found
  /\ ~(m.to = m.from /\ s[m.from] \in {S(""), Num("0")})

(***************************************************************************)
(* Function calls and the extractors                                       *)
(***************************************************************************)
\* FunctionCall[] | undefined
NoCalls == [defined |-> FALSE, list |-> <<>>]
Calls(l) == [defined |-> TRUE, list |-> l]
\* an empty list is returned where nothing was found
EmptyListWhenNoneFound(l) == Calls(l)

\* functionCalls.length > 0 ? functionCalls : undefined
OrUndefined(l) == IF Len(l) > 0 THEN Calls(l) ELSE NoCalls

Call(n, a) == [name |-> n, arguments |-> a]

EmptyObject == <<LB, RB>>

\* args.match(/\{[\s\S]*\}/): from the first opening brace to the last
\* closing brace after it
GreedyObject(args) ==
  LET a == FirstAt(args, LB, 1)
      b == LastOf(args, RB, Len(args))
  IN  IF a # 0 /\ b > a THEN Slice(args, a, b) ELSE <<>>

\* HuggingFaceModel.extractFunctionCallsFromText, the body of the pattern 1
\* loop
HFPattern1Call(s, m) ==
  LET args == Trim(Slice(s, m.from, m.to))
  IN  IF IsJSON(args) THEN Call(m.name, args)
      ELSE IF GreedyObject(args) # <<>> THEN Call(m.name, GreedyObject(args))
      ELSE Call(m.name, EmptyObject)

\* the name of a parsed object as the FunctionCall reports it
NameOf(s, m) ==
  IF m.to = m.from /\ s[m.from].k \in {"str", "num"} THEN s[m.from].s
  ELSE "[object Object]"

\* the body of the pattern 3 loop: zero or one call
HFPattern3Call(s, m) ==
  LET block == Slice(s, m.from, m.to)
      n == Member(block, "name")
      a == Member(block, "arguments")
      b == Member(block, "args")
      pick == IF MemberTruthy(block, a) THEN a ELSE b
  IN  IF /\ IsJSON(block)
         /\ MemberTruthy(block, n)
         /\ (MemberTruthy(block, a) \/ MemberTruthy(block, b))
      THEN <<Call(NameOf(block, n), Minify(Slice(block, pick.from, pick.to)))>>
      ELSE <<>>

RECURSIVE Flatten(_)
Flatten(ss) == IF ss = <<>> THEN <<>> ELSE Head(ss) \o Flatten(Tail(ss))

HFExtractFunctionCallsFromText(text) ==
  IF text = <<>> THEN NoCalls
  ELSE
    LET m1 == JsonMatches(text, 1)
        m2 == FunctionMatches(text, 1)
        m3 == MarkdownMatches(text, 1)
        c1 == [i \in 1..Len(m1) |-> HFPattern1Call(text, m1[i])]
        c2 == [i \in 1..Len(m2) |->
                 Call(m2[i].name, Slice(text, m2[i].from, m2[i].to))]
        c3 == Flatten([i \in 1..Len(m3) |-> HFPattern3Call(text, m3[i])])
    IN  OrUndefined(c1 \o c2 \o c3)

\* OllamaModel.tryFixIncompleteJSON
TryFixIncompleteJSON(text, returnAsString) ==
  IF IsJSON(text) THEN text
  ELSE
    LET open == CountOf(text, LB)
        close == CountOf(text, RB)
        fixedText == text \o Braces(open - close)
    IN  IF open > close
        THEN IF returnAsString \/ IsJSON(fixedText) THEN fixedText ELSE text
        ELSE text

\* OllamaModel.extractFunctionCallsFromText, the callback of pattern 1
OllamaPattern1Call(s, m) ==
  LET argsText == TryFixIncompleteJSON(Slice(s, m.from, m.to), FALSE)
  IN  IF IsJSON(argsText) THEN Call(m.name, Minify(argsText))
      ELSE Call(m.name, TryFixIncompleteJSON(argsText, TRUE))

\* the request's functionCall directive: absent, "auto", "none" or {name}
NoDirective == [kind |-> "absent", name |-> ""]
Auto == [kind |-> "auto", name |-> ""]
Forbid == [kind |-> "none", name |-> ""]
Force(n) == [kind |-> "forced", name |-> n]

\* /\{\s*"location"\s*:\s*"([^"]*)"(?:\s*,\s*"unit"\s*:\s*"([^"]*)"|)(.*?)\}/s
\* at i; name carries the location, unit the second group ("" when it did
\* not take part)
WeatherRegexAt(s, i) ==
  LET a == SkipWs(s, i + 1)
      b == SkipWs(s, a + 1)
      c == SkipWs(s, b + 1)
      d == SkipWs(s, c + 1)
      e == SkipWs(s, d + 1)
      f == SkipWs(s, e + 1)
      g == SkipWs(s, f + 1)
      withUnit == /\ At(s, d) = COMMA
                  /\ At(s, e) = S("unit")
                  /\ At(s, f) = COLON
                  /\ At(s, g).k = "str"
                  /\ FirstAt(s, RB, g + 1) # 0
  IN  IF /\ At(s, i) = LB
         /\ At(s, a) = S("location")
         /\ At(s, b) = COLON
         /\ At(s, c).k = "str"
         /\ FirstAt(s, RB, c + 1) # 0
      THEN [ok |-> TRUE, location |-> s[c].s,
            unit |-> IF withUnit THEN s[g].s ELSE ""]
      ELSE [ok |-> FALSE, location |-> "", unit |-> ""]

\* the calculator expression at i: operation, a and b in this order
CalculatorRegexAt(s, i) ==
  LET a == SkipWs(s, i + 1)
      b == SkipWs(s, a + 1)
      c == SkipWs(s, b + 1)
      d == SkipWs(s, c + 1)
      e == SkipWs(s, d + 1)
      f == SkipWs(s, e + 1)
      g == SkipWs(s, f + 1)
      h == SkipWs(s, g + 1)
      k == SkipWs(s, h + 1)
      l == SkipWs(s, k + 1)
      n == SkipWs(s, l + 1)
  IN  IF /\ At(s, i) = LB
         /\ At(s, a) = S("operation")
         /\ At(s, b) = COLON
         /\ At(s, c).k = "str"
         /\ At(s, d) = COMMA
         /\ At(s, e) = S("a")
         /\ At(s, f) = COLON
         /\ At(s, g).k = "num"
         /\ At(s, h) = COMMA
         /\ At(s, k) = S("b")
         /\ At(s, l) = COLON
         /\ At(s, n).k = "num"
         /\ FirstAt(s, RB, n + 1) # 0
      THEN [ok |-> TRUE, operation |-> s[c].s, a |-> s[g].s, b |-> s[n].s]
      ELSE [ok |-> FALSE, operation |-> "", a |-> "", b |-> ""]

\* the forced-name expression
\* /"name"\s*:\s*"<forced>"\s*,\s*"arguments"\s*:\s*(\{[\s\S]*?)(?:\}|$)/s
\* at i: the group runs to just before the first closing brace, or to the
\* end of the text when there is none
ForcedNameRegexAt(s, i, forced) ==
  LET b == SkipWs(s, i + 1)
      c == SkipWs(s, b + 1)
      d == SkipWs(s, c + 1)
      e == SkipWs(s, d + 1)
      f == SkipWs(s, e + 1)
      g == SkipWs(s, f + 1)
      close == FirstAt(s, RB, g + 1)
  IN  IF /\ At(s, i) = S("name")
         /\ At(s, b) = COLON
         /\ At(s, c) = S(forced)
         /\ At(s, d) = COMMA
         /\ At(s, e) = S("arguments")
         /\ At(s, f) = COLON
         /\ At(s, g) = LB
      THEN [ok |-> TRUE, name |-> forced, from |-> g,
            to |-> IF close # 0 THEN close - 1 ELSE Len(s), end |-> close]
      ELSE NoMatch

\* String.match without the g flag: the leftmost position that matches, 0
\* when none does
FirstWeather(s) ==
  IF \E i \in 1..Len(s) : WeatherRegexAt(s, i).ok
  THEN CHOOSE i \in 1..Len(s) :
         /\ WeatherRegexAt(s, i).ok
         /\ \A j \in 1..(i - 1) : ~WeatherRegexAt(s, j).ok
  ELSE 0

FirstCalculator(s) ==
  IF \E i \in 1..Len(s) : CalculatorRegexAt(s, i).ok
  THEN CHOOSE i \in 1..Len(s) :
         /\ CalculatorRegexAt(s, i).ok
         /\ \A j \in 1..(i - 1) : ~CalculatorRegexAt(s, j).ok
  ELSE 0

FirstForcedName(s, forced) ==
  IF \E i \in 1..Len(s) : ForcedNameRegexAt(s, i, forced).ok
  THEN CHOOSE i \in 1..Len(s) :
         /\ ForcedNameRegexAt(s, i, forced).ok
         /\ \A j \in 1..(i - 1) : ~ForcedNameRegexAt(s, j, forced).ok
  ELSE 0

\* JSON.stringify({location, unit})
WeatherArguments(location, unit) ==
  <<LB, S("location"), COLON, S(location), COMMA, S("unit"), COLON, S(unit),
    RB>>

\* JSON.stringify({operation, a, b})
CalculatorArguments(operation, a, b) ==
  <<LB, S("operation"), COLON, S(operation), COMMA, S("a"), COLON, Num(a),
    COMMA, S("b"), COLON, Num(b), RB>>

\* pattern 3 of the Ollama extractor: the forced function's parameter shape
OllamaPattern3(fixedText, directive) ==
  LET w == FirstWeather(fixedText)
      c == FirstCalculator(fixedText)
      wm == WeatherRegexAt(fixedText, w)
      cm == CalculatorRegexAt(fixedText, c)
  IN  IF directive.kind = "forced" /\ directive.name = "getWeather" /\ w # 0
      THEN Calls(<<Call("getWeather",
                        WeatherArguments(wm.location,
                          IF wm.unit # "" THEN wm.unit ELSE "celsius"))>>)
      ELSE IF directive.kind = "forced" /\ directive.name = "calculator"
              /\ c # 0
      THEN Calls(<<Call("calculator",
                        CalculatorArguments(cm.operation, cm.a, cm.b))>>)
      ELSE NoCalls

\* pattern 4 of the Ollama extractor: the loose forced-name envelope
OllamaPattern4(fixedText, directive) ==
  LET i == IF directive.kind = "forced"
           THEN FirstForcedName(fixedText, directive.name) ELSE 0
      m == ForcedNameRegexAt(fixedText, i, directive.name)
      captured == Slice(fixedText, m.from, m.to)
      argsText == IF captured # <<>> /\ captured[Len(captured)] = RB
                  THEN captured ELSE captured \o <<RB>>
  IN  IF i = 0 THEN NoCalls
      ELSE IF IsJSON(argsText)
      THEN Calls(<<Call(directive.name, Minify(argsText))>>)
      ELSE Calls(<<Call(directive.name,
                        TryFixIncompleteJSON(argsText, TRUE))>>)

\* the forced function's parameter shape tried before the call syntax
OllamaExtractShapeBeforeCallSyntax(text, directive) ==
  IF text = <<>> THEN NoCalls
  ELSE
    LET fixedText == TryFixIncompleteJSON(text, FALSE)
        m1 == JsonMatches(fixedText, 1)
        m2 == FunctionMatches(fixedText, 1)
        p3 == OllamaPattern3(fixedText, directive)
    IN  IF Len(m1) > 0
        THEN Calls([i \in 1..Len(m1) |-> OllamaPattern1Call(fixedText, m1[i])])
        ELSE IF p3.defined THEN p3
        ELSE IF Len(m2) > 0
        THEN Calls([i \in 1..Len(m2) |->
                      Call(m2[i].name,
                           TryFixIncompleteJSON(
                             Slice(fixedText, m2[i].from, m2[i].to), FALSE))])
        ELSE OllamaPattern4(fixedText, directive)

OllamaExtractFunctionCallsFromText(text, directive) ==
  IF text = <<>> THEN NoCalls
  ELSE
    LET fixedText == TryFixIncompleteJSON(text, FALSE)
        m1 == JsonMatches(fixedText, 1)
        m2 == FunctionMatches(fixedText, 1)
        p3 == OllamaPattern3(fixedText, directive)
    IN  IF Len(m1) > 0
        THEN Calls([i \in 1..Len(m1) |-> OllamaPattern1Call(fixedText, m1[i])])
        ELSE IF Len(m2) > 0
        THEN Calls([i \in 1..Len(m2) |->
                      Call(m2[i].name,
                           TryFixIncompleteJSON(
                             Slice(fixedText, m2[i].from, m2[i].to), FALSE))])
        ELSE IF p3.defined THEN p3
        ELSE OllamaPattern4(fixedText, directive)

(***************************************************************************)
(* The Google extractor                                                    *)
(***************************************************************************)
\* smallest c >= i with a closing brace at c followed by \s*\}
RECURSIVE CloseBeforeClose(_, _)
CloseBeforeClose(s, i) ==
  IF i > Len(s) THEN 0
  ELSE IF s[i] = RB /\ At(s, SkipWs(s, i + 1)) = RB THEN i
  ELSE CloseBeforeClose(s, i + 1)

\* /\{\s*"name"\s*:\s*"([^"]+)"\s*,\s*"arguments"\s*:\s*(\{.*?\})\s*\}/s at i
GoogleJsonRegexAt(s, i) ==
  LET a == SkipWs(s, i + 1)
      b == SkipWs(s, a + 1)
      c == SkipWs(s, b + 1)
      d == SkipWs(s, c + 1)
      e == SkipWs(s, d + 1)
      f == SkipWs(s, e + 1)
      g == SkipWs(s, f + 1)
      close == CloseBeforeClose(s, g + 1)
  IN  IF /\ At(s, i) = LB
         /\ At(s, a) = S("name")
         /\ At(s, b) = COLON
         /\ At(s, c).k = "str" /\ At(s, c).s # ""
         /\ At(s, d) = COMMA
         /\ At(s, e) = S("arguments")
         /\ At(s, f) = COLON
         /\ At(s, g) = LB
         /\ close # 0
      THEN [ok |-> TRUE, name |-> s[c].s, from |-> g, to |-> close,
            end |-> SkipWs(s, close + 1)]
      ELSE NoMatch

RECURSIVE GoogleJsonMatches(_, _)
GoogleJsonMatches(s, p) ==
  IF p > Len(s) THEN <<>>
  ELSE LET m == GoogleJsonRegexAt(s, p)
       IN  IF m.ok THEN <<m>> \o GoogleJsonMatches(s, m.end + 1)
           ELSE GoogleJsonMatches(s, p + 1)

\* s.match(/"name"\s*:\s*"([^"]+)"/): the first match from i on
RECURSIVE NameMatch(_, _)
NameMatch(s, i) ==
  IF i > Len(s) THEN NoMatch
  ELSE LET c == SkipWs(s, i + 1)
           v == SkipWs(s, c + 1)
       IN  IF /\ s[i] = S("name")
              /\ At(s, c) = COLON
              /\ At(s, v).k = "str" /\ At(s, v).s # ""
           THEN [ok |-> TRUE, name |-> s[v].s, from |-> v, to |-> v, end |-> v]
           ELSE NameMatch(s, i + 1)

\* s.match(/"arguments"\s*:\s*(\{[^}]*\})/): the first match from i on
RECURSIVE ArgsBlockMatch(_, _)
ArgsBlockMatch(s, i) ==
  IF i > Len(s) THEN NoMatch
  ELSE LET c == SkipWs(s, i + 1)
           g == SkipWs(s, c + 1)
           close == FirstAt(s, RB, g + 1)
       IN  IF /\ s[i] = S("arguments")
              /\ At(s, c) = COLON
              /\ At(s, g) = LB
              /\ close # 0
           THEN [ok |-> TRUE, name |-> "", from |-> g, to |-> close,
                 end |-> close]
           ELSE ArgsBlockMatch(s, i + 1)

\* the end of \{[^{]*?(?:\}|$) that opens at g: the first closing brace, or
\* the end of the text, unless an opening brace comes first (then 0)
RECURSIVE LooseBlockEnd(_, _)
LooseBlockEnd(s, k) ==
  IF k > Len(s) THEN Len(s)
  ELSE IF s[k] = RB THEN k
  ELSE IF s[k] = LB THEN 0
  ELSE LooseBlockEnd(s, k + 1)

\* s.match(/"arguments"\s*:\s*(\{[^{]*?(?:\}|$))/): the first match from i on
RECURSIVE LooseArgsMatch(_, _)
LooseArgsMatch(s, i) ==
  IF i > Len(s) THEN NoMatch
  ELSE LET c == SkipWs(s, i + 1)
           g == SkipWs(s, c + 1)
           end == LooseBlockEnd(s, g + 1)
       IN  IF /\ s[i] = S("arguments")
              /\ At(s, c) = COLON
              /\ At(s, g) = LB
              /\ end # 0
           THEN [ok |-> TRUE, name |-> "", from |-> g, to |-> end, end |-> end]
           ELSE LooseArgsMatch(s, i + 1)

\* args.replace(/,\s*}/g, "}")
RECURSIVE DropTrailingCommas(_, _)
DropTrailingCommas(s, i) ==
  IF i > Len(s) THEN <<>>
  ELSE LET n == SkipWs(s, i + 1)
       IN  IF s[i] = COMMA /\ At(s, n) = RB
           THEN <<RB>> \o DropTrailingCommas(s, n + 1)
           ELSE <<s[i]>> \o DropTrailingCommas(s, i + 1)

\* GoogleModel.extractFunctionCallsFromText, the body of the pattern 2 loop:
\* the parsed block, or the name and arguments picked out of a malformed one
GooglePattern2Call(s, m) ==
  LET raw == Slice(s, m.from, m.to)
      nameMatch == NameMatch(raw, 1)
      argsMatch == ArgsBlockMatch(raw, 1)
  IN  IF IsJSON(Trim(raw)) THEN HFPattern3Call(s, m)
      ELSE IF nameMatch.ok /\ argsMatch.ok
      THEN <<Call(nameMatch.name, Slice(raw, argsMatch.from, argsMatch.to))>>
      ELSE <<>>

\* pattern 3: the looser expressions, tried when nothing was found
GooglePattern3(text) ==
  LET nameMatch == NameMatch(text, 1)
      argsMatch == LooseArgsMatch(text, 1)
      trimmed == Trim(Slice(text, argsMatch.from, argsMatch.to))
      closed == IF trimmed[Len(trimmed)] = RB THEN trimmed
                ELSE trimmed \o <<RB>>
  IN  IF nameMatch.ok /\ argsMatch.ok
      THEN <<Call(nameMatch.name, DropTrailingCommas(closed, 1))>>
      ELSE <<>>

GoogleExtractFunctionCallsFromText(text) ==
  IF text = <<>> THEN NoCalls
  ELSE
    LET m1 == GoogleJsonMatches(text, 1)
        m2 == MarkdownMatches(text, 1)
        c1 == [i \in 1..Len(m1) |->
                 Call(m1[i].name, Slice(text, m1[i].from, m1[i].to))]
        c2 == Flatten([i \in 1..Len(m2) |-> GooglePattern2Call(text, m2[i])])
    IN  IF Len(c1 \o c2) > 0 THEN Calls(c1 \o c2)
        ELSE OrUndefined(GooglePattern3(text))

(***************************************************************************)
(* Extractor runs: the text is drawn at Init, each extractor is applied    *)
(* once.                                                                   *)
(***************************************************************************)
MaxArgLen == 4

\* sequences over A of length at most n
RECURSIVE SeqsUpTo(_, _)
SeqsUpTo(A, n) ==
  IF n = 0 THEN {<<>>}
  ELSE LET shorter == SeqsUpTo(A, n - 1)
       IN  shorter \cup {Append(q, a) : q \in {r \in shorter : Len(r) = n - 1},
                                        a \in A}

ArgAlphabet == {LB, RB, COLON, COMMA, S("location"), S("Tokyo")}

\* {"name": "getWeather", "arguments":
EnvelopeHead ==
  <<LB, S("name"), COLON, SP, S("getWeather"), COMMA, SP, S("arguments"),
    COLON, SP>>

WeatherObject ==
  <<LB, S("location"), COLON, SP, S("Tokyo"), COMMA, SP, S("unit"), COLON, SP,
    S("celsius"), RB>>

\* {"name": "getWeather", "arguments": {"location": "Tokyo", "unit": "celsius"}}
WeatherEnvelope == EnvelopeHead \o WeatherObject \o <<RB>>

EnvelopeTexts ==
  {EnvelopeHead \o a \o t : a \in SeqsUpTo(ArgAlphabet, MaxArgLen),
                            t \in {<<>>, <<RB>>, <<RB, RB>>}}

OtherTexts ==
  { <<>>,
    <<Id("Four")>>,
    WeatherEnvelope,
    SubSeq(WeatherEnvelope, 1, Len(WeatherEnvelope) - 1),
    <<Id("Sure"), SP>> \o WeatherEnvelope,
    WeatherObject,
    <<LB, S("location"), COLON, S("Paris"), RB>>,
    <<Id("getWeather"), LPAR>> \o WeatherObject \o <<RPAR>>,
    <<FENCE, Id("json"), NL>> \o WeatherEnvelope \o <<NL, FENCE>>,
    <<LB, S("operation"), COLON, S("add"), COMMA, S("a"), COLON, Num("2"),
      COMMA, S("b"), COLON, Num("3"), RB>>,
    <<S("name"), COLON, S("getWeather"), COMMA, S("arguments"), COLON, LB,
      S("location"), COLON, S("Tokyo")>> }

Texts == EnvelopeTexts \cup OtherTexts

Directives == {NoDirective, Auto, Force("getWeather"), Force("calculator")}

Pending == [state |-> "pending", result |-> NoCalls]
Done(r) == [state |-> "done", result |-> r]

IdleCall ==
  /\ adapter = "none"
  /\ instCfg = NULL
  /\ req = NULL
  /\ pc = "idle"
  /\ calls = <<>>
  /\ errors = <<>>
  /\ outcome = NULL
  /\ events = <<>>

(***************************************************************************)
(* API keys and base URLs                                                  *)
(***************************************************************************)
KeyAndUrl(key, url) == [apiKey |-> key, baseURL |-> url]

Credentials(opt, cfg, env) == [opt |-> opt, cfg |-> cfg, env |-> env]

\* only the environment names a key
DefaultCreds ==
  Credentials(KeyAndUrl(NULL, NULL), KeyAndUrl(NULL, NULL),
              KeyAndUrl("env-key", NULL))

\* the environment variables and the hardcoded URL of each adapter
EnvKeyName(a) ==
  CASE a = "huggingface" -> "HUGGINGFACE_API_KEY"
    [] a = "openai" -> "OPENAI_API_KEY"
    [] a = "google" -> "GOOGLE_API_KEY"
    [] a = "deepseek" -> "DEEPSEEK_API_KEY"
    [] OTHER -> NULL

ProviderName(a) ==
  CASE a = "huggingface" -> "HuggingFace"
    [] a = "openai" -> "OpenAI"
    [] a = "google" -> "Google"
    [] a = "deepseek" -> "DeepSeek"
    [] OTHER -> "Ollama"

DefaultUrl(a) ==
  CASE a = "huggingface" -> "https://api-inference.huggingface.co/models"
    [] a = "deepseek" -> "https://api.deepseek.com/v1"
    [] a = "ollama" -> "http://localhost:11434/api"
    [] OTHER -> NULL

\* getApiKey: the key of the config, else of the environment, else a throw
\* (NULL here)
GetApiKey(configKey, envKey) ==
  IF configKey # NULL THEN configKey ELSE envKey

\* getBaseUrl: the URL of the config, else of the environment, else the default
GetBaseUrl(configUrl, envUrl, defaultUrl) ==
  IF configUrl # NULL THEN configUrl
  ELSE IF envUrl # NULL THEN envUrl ELSE defaultUrl

\* mergeConfig on the apiKey and baseURL fields
MergedCreds(c) ==
  KeyAndUrl(IF c.opt.apiKey # NULL THEN c.opt.apiKey ELSE c.cfg.apiKey,
            IF c.opt.baseURL # NULL THEN c.opt.baseURL ELSE c.cfg.baseURL)

\* the constructor throws when getApiKey finds no key
ConstructorThrows(a, c) ==
  a # "ollama" /\ GetApiKey(c.cfg.apiKey, c.env.apiKey) = NULL

\* the Authorization of a request: HuggingFace and DeepSeek take
\* config.apiKey || getApiKey(...) of the merged config, the clients of
\* OpenAI and Google hold the key the constructor resolved, Ollama has none
KeyUsed ==
  CASE adapter \in {"huggingface", "deepseek"} ->
         GetApiKey(MergedCreds(creds).apiKey, creds.env.apiKey)
    [] adapter \in {"openai", "google"} ->
         GetApiKey(creds.cfg.apiKey, creds.env.apiKey)
    [] OTHER -> NULL

\* the base URL of a request: this.baseURL as the constructor resolved it;
\* the OpenAI client gets config.baseURL and decides itself without it, the
\* Google client takes no URL
UrlUsed ==
  CASE adapter \in {"huggingface", "deepseek", "ollama"} ->
         GetBaseUrl(creds.cfg.baseURL, creds.env.baseURL, DefaultUrl(adapter))
    [] adapter = "openai" ->
         IF creds.cfg.baseURL # NULL THEN creds.cfg.baseURL ELSE "client-decides"
    [] OTHER -> "client-decides"

\* no stream call is made
NoStream == [state |-> "none", i |-> 0, chunks |-> <<>>, error |-> Undef]

\* there is no second call
NoParked == [id |-> 0]

\* no utility function runs
NoRun == [fn |-> "none"]

IdleOthers ==
  /\ stream = NoStream
  /\ creds = DefaultCreds
  /\ parked = NoParked
  /\ util = NoRun

IdleExtractor ==
  /\ exText = <<>>
  /\ exDirective = NoDirective
  /\ exHF = Pending
  /\ exOllama = Pending
  /\ exGoogle = Pending

ExInit ==
  /\ IdleCall
  /\ IdleOthers
  /\ exText \in Texts
  /\ exDirective \in Directives
  /\ exHF = Pending
  /\ exOllama = Pending
  /\ exGoogle = Pending

ExtractHF ==
  /\ exHF.state = "pending"
  /\ exHF' = Done(HFExtractFunctionCallsFromText(exText))
  /\ UNCHANGED <<callVars, otherVars, exText, exDirective, exOllama, exGoogle>>

ExtractOllama ==
  /\ exOllama.state = "pending"
  /\ exOllama' = Done(OllamaExtractFunctionCallsFromText(exText, exDirective))
  /\ UNCHANGED <<callVars, otherVars, exText, exDirective, exHF, exGoogle>>

ExtractGoogle ==
  /\ exGoogle.state = "pending"
  /\ exGoogle' = Done(GoogleExtractFunctionCallsFromText(exText))
  /\ UNCHANGED <<callVars, otherVars, exText, exDirective, exHF, exOllama>>

ExNext == ExtractHF \/ ExtractOllama \/ ExtractGoogle

SpecExtract == ExInit /\ [][ExNext]_vars

(***************************************************************************)
(* Claims about the extractors                                             *)
(***************************************************************************)
\* the result is exactly one getWeather call whose arguments parse to
\* {location: "Tokyo", unit: "celsius"}
OneWeatherCall(r) ==
  /\ r.defined
  /\ Len(r.list) = 1
  /\ r.list[1].name = "getWeather"
  /\ IsJSON(r.list[1].arguments)
  /\ Minify(r.list[1].arguments) = Minify(WeatherObject)

\* C3: both the HuggingFace and the Ollama extractor turn the text
\* {"name": "getWeather", "arguments": {"location": "Tokyo", "unit": "celsius"}}
\* into exactly one FunctionCall named getWeather whose arguments parse back
\* to {location: "Tokyo", unit: "celsius"}.
C3_BothExtractorsRecoverWeatherCall ==
  exText = WeatherEnvelope =>
    /\ exHF.state = "done" => OneWeatherCall(exHF.result)
    /\ exOllama.state = "done" => OneWeatherCall(exOllama.result)

\* the text is a name/arguments envelope whose arguments object does not parse
BrokenEnvelope(t) ==
  /\ Len(t) > Len(EnvelopeHead)
  /\ SubSeq(t, 1, Len(EnvelopeHead)) = EnvelopeHead
  /\ t[Len(EnvelopeHead) + 1] = LB
  /\ ParseValue(t, Len(EnvelopeHead) + 1) = 0

\* a call for the envelope is returned, and every returned arguments string
\* is valid JSON ("{}" included)
RepairedCalls(r) ==
  /\ r.defined
  /\ \E i \in 1..Len(r.list) : r.list[i].name = "getWeather"
  /\ \A i \in 1..Len(r.list) : IsJSON(r.list[i].arguments)

\* C4: for a name/arguments envelope whose arguments object is unbalanced,
\* truncated or not parseable, both extractors still return a FunctionCall,
\* and its arguments string is valid JSON after repair or exactly "{}".
C4_BrokenArgumentsAreRepairedOrEmpty ==
  BrokenEnvelope(exText) =>
    /\ exHF.state = "done" => RepairedCalls(exHF.result)
    /\ exOllama.state = "done" => RepairedCalls(exOllama.result)

\* what an extractor returns: undefined, or a list of at least one call with a
\* name
ExtractorResult(r) ==
  IF r.defined
  THEN Len(r.list) > 0 /\ \A i \in 1..Len(r.list) : r.list[i].name # ""
  ELSE r.list = <<>>

\* every pattern of the three extractors needs an opening brace
NoPatternIn(text) == ~Includes(text, LB)

\* C13: for every text and every functionCall directive the extractors
\* return instead of throwing: a parse failure inside the extraction gives an
\* omitted or a best-effort call, and a text in which no pattern matches
\* gives undefined.
C13_ExtractorsReturnForEveryText ==
  \A run \in {exHF, exOllama, exGoogle} :
    run.state = "done" =>
      /\ ExtractorResult(run.result)
      /\ NoPatternIn(exText) => run.result = NoCalls

C13_Witness ==
  /\ BrokenEnvelope(exText)
  /\ exHF.state = "done" /\ exOllama.state = "done" /\ exGoogle.state = "done"
  /\ exHF.result.defined
  /\ exOllama.result.defined
  /\ ~exGoogle.result.defined

(***************************************************************************)
(* Requests, configurations, images                                        *)
(***************************************************************************)
\* a numeric configuration field that is absent
Unset == 0 - 1

Config(m, t, mt, tp) ==
  [model |-> m, temperature |-> t, maxTokens |-> mt, topP |-> tp]

\* BaseModel.mergeConfig: the per-call options override the instance
\* configuration field by field
MergeConfig(inst, options) ==
  [model |-> IF options.model # NULL THEN options.model ELSE inst.model,
   temperature |-> IF options.temperature # Unset THEN options.temperature
                   ELSE inst.temperature,
   maxTokens |-> IF options.maxTokens # Unset THEN options.maxTokens
                 ELSE inst.maxTokens,
   topP |-> IF options.topP # Unset THEN options.topP ELSE inst.topP]

\* the merged configuration written back to this.config
InstanceConfigMergedInPlace(inst, options) == MergeConfig(inst, options)

\* const config = this.mergeConfig(request.options): generate keeps the
\* merged configuration in a local, this.config stays as constructed
InstanceConfigAfter(inst, options) == inst

TextPart(t) == [type |-> "text", text |-> t, source |-> NULL]
ImagePart(src) == [type |-> "image", text |-> <<>>, source |-> src]

\* imageToBase64: the encoding of the bytes behind a source
Base64(src) == [base64of |-> src]
NoImage == [base64of |-> NULL]

\* the image sources used here: existing files, a URL, and a string that is
\* neither (isUrl and isFilePath are both false)
Files == {"a.png", "b.jpg", "c.gif"}
Urls == {"https://host/d.webp"}
MissingFile == "missing.png"

\* imageToBase64: the branch a source takes
SourceKind(src) ==
  IF src \in Urls THEN "url" ELSE IF src \in Files THEN "file" ELSE "invalid"

\* path.extname of the image sources used here
ExtName(src) ==
  CASE src \in {"a.png", MissingFile} -> ".png"
    [] src = "b.jpg" -> ".jpg"
    [] src = "c.gif" -> ".gif"
    [] src \in Urls -> ".webp"
    [] OTHER -> ""

\* getMimeType
GetMimeType(src) ==
  LET ext == ExtName(src)
  IN  CASE ext \in {".jpg", ".jpeg"} -> "image/jpeg"
        [] ext = ".png" -> "image/png"
        [] ext = ".gif" -> "image/gif"
        [] ext = ".webp" -> "image/webp"
        [] ext = ".bmp" -> "image/bmp"
        [] ext = ".svg" -> "image/svg+xml"
        [] OTHER -> "image/jpeg"

\* processImage
ProcessImage(src) == [base64 |-> Base64(src), mimeType |-> GetMimeType(src)]

\* one entry of the log: an image resolution, an attempted payload format or
\* a backend request
ResolveEvent(src) ==
  [op |-> "resolve", what |-> src, ok |-> SourceKind(src) # "invalid"]
AttemptEvent(format) == [op |-> "attempt", what |-> format, ok |-> TRUE]
\* a backend request, with the base URL and the key it is sent with
PostEvent(what, ok) ==
  [op |-> "post", what |-> what, ok |-> ok, url |-> UrlUsed, key |-> KeyUsed]

\* the first source imageToBase64 rejects, 0 when it accepts them all
FirstInvalid(srcs) ==
  LET bad == {i \in 1..Len(srcs) : SourceKind(srcs[i]) = "invalid"}
  IN  IF bad = {} THEN 0 ELSE CHOOSE i \in bad : \A j \in bad : i <= j

AllValid(srcs) == FirstInvalid(srcs) = 0

\* processImage over the sources in the order of the code, up to the first
\* that throws
ResolveAll(srcs) ==
  LET n == IF AllValid(srcs) THEN Len(srcs) ELSE FirstInvalid(srcs)
  IN  [i \in 1..n |-> ResolveEvent(srcs[i])]

\* the image parts of request.content, in order
ContentImages(r) ==
  IF r.hasContent THEN SelectSeq(r.content, LAMBDA part : part.type = "image")
  ELSE <<>>

\* request.image || request.content.some(item => item.type === "image")
HasImages(r) == r.image # NULL \/ Len(ContentImages(r)) > 0

\* request.image || request.content
HasImageOrContent(r) == r.image # NULL \/ r.hasContent

HasFunctions(r) == Len(r.functions) > 0

(***************************************************************************)
(* Errors.  Messages are sequences of words and phrases.                   *)
(***************************************************************************)
AxiosError(status, data) ==
  [name |-> "AxiosError", hasResponse |-> TRUE, status |-> status,
   data |-> data,
   message |-> <<"Request failed with status code", ToString(status)>>]

NetworkError ==
  [name |-> "AxiosError", hasResponse |-> FALSE, status |-> 0, data |-> Undef,
   message |-> <<"Network Error">>]

PlainError(msg) ==
  [name |-> "Error", hasResponse |-> FALSE, status |-> 0, data |-> Undef,
   message |-> msg]

TypeError(msg) ==
  [name |-> "TypeError", hasResponse |-> FALSE, status |-> 0, data |-> Undef,
   message |-> msg]

NoError == PlainError(<<>>)

\* imageToBase64: the error for a source that is no Buffer, URL or file
InvalidImageError ==
  PlainError(<<"Invalid image source. Must be URL, file path, or Buffer">>)

\* the sources of the content images, and of the convenience image
ContentSources(r) ==
  [i \in 1..Len(ContentImages(r)) |-> ContentImages(r)[i].source]
OwnSource(r) == IF r.image # NULL THEN <<r.image>> ELSE <<>>

\* the order in which formatMessages, formatMultiModalContent and
\* createRequestPayload call processImage
ContentThenOwn(r) == ContentSources(r) \o OwnSource(r)

\* error.response?.data || error.message, interpolated into a message
DataOrMessage(e) == IF Truthy(e.data) THEN Interp(e.data) ELSE e.message

\* only the last attempt's cause is reported
JoinMessagesLastOnly(es) == IF es = <<>> THEN <<>> ELSE es[Len(es)].message

\* errors.map(e => e.message || e).join("; ")
RECURSIVE JoinMessages(_)
JoinMessages(es) ==
  IF es = <<>> THEN <<>>
  ELSE IF Len(es) = 1 THEN es[1].message
  ELSE es[1].message \o <<";">> \o JoinMessages(Tail(es))

(***************************************************************************)
(* HuggingFace                                                             *)
(***************************************************************************)
HFDefaultModel == "mistralai/Mistral-7B-Instruct-v0.2"
SuggestedVisionModel == "'llava-hf/llava-1.5-7b-hf'"

\* const model = config.model || <default>
HFModel(config) == IF config.model # NULL THEN config.model ELSE HFDefaultModel

\* systemPrompt ? `${systemPrompt}\n\n${prompt}` : prompt
WithSystemPrompt(r) ==
  IF r.systemPrompt # <<>> THEN r.systemPrompt \o <<"\n\n">> \o r.prompt
  ELSE r.prompt

\* the prompt of the three image formats
HFEnhancedPrompt(r) ==
  IF HasFunctions(r)
  THEN WithSystemPrompt(r) \o <<"Available functions:", "json">> \o r.functions
       \o (IF r.functionCall.kind = "forced"
           THEN <<"Please call the function:", r.functionCall.name>>
           ELSE IF r.functionCall.kind = "auto"
           THEN <<"Call the appropriate function if needed.">>
           ELSE <<>>)
  ELSE WithSystemPrompt(r)

\* the prompt of generateTextOnly
HFFullPrompt(r) ==
  IF HasFunctions(r)
  THEN WithSystemPrompt(r) \o <<"AVAILABLE FUNCTIONS:">> \o r.functions
       \o (IF r.functionCall.kind = "forced"
           THEN <<"You must call the function:", r.functionCall.name,
                  "Format your answer as a function call using JSON",
                  "Don't include any explanations">>
           ELSE IF r.functionCall.kind = "auto"
           THEN <<"Call one of the available functions if appropriate.",
                  "Format the function call as JSON">>
           ELSE <<>>)
  ELSE WithSystemPrompt(r)

\* x || d for a numeric configuration field: 0 and absent both give d
OrDefault(x, d) == IF x = Unset \/ x = 0 THEN d ELSE x

\* temperatures and top-p in tenths
HFParameters(config) ==
  [temperature |-> OrDefault(config.temperature, 1),
   max_new_tokens |-> OrDefault(config.maxTokens, 500),
   top_p |-> OrDefault(config.topP, 9)]

Base64s(parts) == [i \in 1..Len(parts) |-> Base64(parts[i].source)]

\* generateWithNestedFormat: the payload
HFNestedPayload(r, config) ==
  LET own == IF r.image # NULL THEN Base64(r.image) ELSE NoImage
      imgs == Base64s(ContentImages(r))
  IN  [format |-> "nested",
       text |-> HFEnhancedPrompt(r),
       image |-> IF Len(imgs) = 1 THEN imgs[1] ELSE own,
       images |-> IF Len(imgs) > 1 THEN imgs ELSE <<>>,
       parameters |-> HFParameters(config)]

\* generateWithFlatFormat: the payload
HFFlatPayload(r, config) ==
  LET imgs == Base64s(ContentImages(r))
  IN  [format |-> "flat",
       text |-> HFEnhancedPrompt(r),
       image |-> IF r.image # NULL THEN Base64(r.image)
                 ELSE IF Len(imgs) > 0 THEN imgs[1] ELSE NoImage,
       images |-> <<>>,
       parameters |-> HFParameters(config)]

\* generateWithMultipartForm: the form fields; a parameter is appended only
\* when it is truthy
HFMultipartPayload(r, config) ==
  [format |-> "multipart",
   text |-> HFEnhancedPrompt(r),
   image |-> IF r.image # NULL THEN Base64(r.image) ELSE NoImage,
   images |-> Base64s(ContentImages(r)),
   parameters |-> [temperature |-> OrDefault(config.temperature, Unset),
                   max_new_tokens |-> OrDefault(config.maxTokens, Unset),
                   top_p |-> OrDefault(config.topP, Unset)]]

\* generateTextOnly: the payload
HFTextPayload(r, config) ==
  [format |-> "text",
   text |-> HFFullPrompt(r),
   image |-> NoImage,
   images |-> <<>>,
   parameters |-> HFParameters(config)]

\* every image a HuggingFace payload carries
HFPayloadImages(payload) ==
  (IF payload.image # NoImage THEN <<payload.image>> ELSE <<>>)
    \o payload.images

(***************************************************************************)
(* HuggingFace: backend replies and their normalisation                    *)
(***************************************************************************)
\* response.data of a successful reply:
\*   "array"  [{generated_text: gt}]      "empty"  []
\*   "object" {generated_text: gt}        "string" gt itself
\*   "other"  an object without generated_text
Data(shape, gt) == [shape |-> shape, gt |-> gt]

\* JSON.stringify(response.data) where no generated text was found
StringifyData(data) ==
  CASE data.shape = "string" -> StringifyString(data.gt)
    [] data.shape = "object" -> StringifyGenerated(data.gt)
    [] OTHER -> <<LB, S("foo"), COLON, Num("1"), RB>>

Response(text, functionCalls, raw) ==
  [text |-> text, functionCalls |-> functionCalls, raw |-> raw]

NoResponse == Response(Undef, NoCalls, Data("none", <<>>))

\* generateTextOnly: the text of a reply
HFTextOfReply(data) ==
  IF data.shape \in {"array", "empty"} THEN data.gt
  ELSE IF data.shape = "object" /\ data.gt # <<>> THEN data.gt
  ELSE StringifyData(data)

\* generateTextOnly: the response built from a reply
HFTextOnlyResponse(data) ==
  LET text == HFTextOfReply(data)
  IN  Response(Str(text), HFExtractFunctionCallsFromText(text), data)

\* a bare string reply is stringified instead of being taken as the text
HFParseResponseWithoutStringBranch(data) ==
  LET text == HFTextOfReply(data)
  IN  Response(Str(text), HFExtractFunctionCallsFromText(text), data)

\* parseResponseWithFunctionCalls, and the same lines at the end of
\* generateWithMultipartForm
HFParseResponseWithFunctionCalls(data) ==
  LET text == IF data.shape \in {"array", "empty"} THEN data.gt
              ELSE IF data.shape = "object" /\ data.gt # <<>> THEN data.gt
              ELSE IF data.shape = "string" THEN data.gt
              ELSE StringifyData(data)
  IN  Response(Str(text), HFExtractFunctionCallsFromText(text), data)

\* generateWithImages: the error thrown when the three formats have failed
HFAggregatedError(model, errs) ==
  PlainError(<<"Model", model, "doesn't appear to support", "multimodal",
               "inputs in any of the attempted formats.",
               "Try a different", "vision", "-capable model like",
               SuggestedVisionModel, "Errors:">> \o JoinMessages(errs))

\* generate, catch: the test that selects the multimodal guidance.  The
\* first operand calls data.includes, which an object body does not have.
HFThrowsInTest(r, e) ==
  HasImageOrContent(r) /\ e.hasResponse /\ e.data.t = "object"

HFLooksMultimodal(r, e) ==
  /\ HasImageOrContent(r)
  /\ \/ e.hasResponse /\ e.data.t = "string" /\ Includes(e.data.v, "Content-Type")
     \/ e.hasResponse /\ e.status = 415
     \/ e.hasResponse /\ e.data.t = "object" /\ Includes(e.data.v, "image")
     \/ Includes(e.message, "multimodal")
     \/ Includes(ToLowerCase(e.message), "vision")
     \/ Includes(ToLowerCase(e.message), "unsupported")

HFMultimodalError(model, e) ==
  PlainError(<<"Model", model, "doesn't appear to support", "multimodal",
               "inputs properly.">>
             \o (IF e.hasResponse /\ e.status = 415
                 THEN <<"The model may require a different format for image inputs.">>
                 ELSE <<>>)
             \o <<"Original error:">> \o DataOrMessage(e)
             \o <<"Try a different", "vision", "-capable model like",
                  SuggestedVisionModel,
                  "or check HuggingFace's documentation for this specific model.">>)

HFPermissionError(model, e) ==
  PlainError(<<"Permission denied for model", model,
               "Try using a different model with public access.", "Error:">>
             \o DataOrMessage(e))

\* generate, catch: the error that reaches the caller for the error e
HFCatch(r, model, e) ==
  IF HFThrowsInTest(r, e)
  THEN TypeError(<<"error.response.data.includes is not a function">>)
  ELSE IF HFLooksMultimodal(r, e) THEN HFMultimodalError(model, e)
  ELSE IF e.hasResponse /\ e.status = 403 THEN HFPermissionError(model, e)
  ELSE e

(***************************************************************************)
(* HuggingFace generate as a state machine: one step per backend request   *)
(***************************************************************************)
Ok(data) == [ok |-> TRUE, data |-> data, error |-> NoError]
Fail(e) == [ok |-> FALSE, data |-> Data("none", <<>>), error |-> e]

PendingOutcome == [state |-> "pending", response |-> NoResponse, error |-> NoError]
Resolved(resp) == [state |-> "resolved", response |-> resp, error |-> NoError]
Rejected(e) == [state |-> "rejected", response |-> NoResponse, error |-> e]

HFTexts == {<<>>, <<Id("Four")>>}

HFSuccesses ==
  {Data(shape, t) : shape \in {"array", "object", "string"}, t \in HFTexts}
    \cup {Data("empty", <<>>), Data("other", <<>>),
          Data("array", WeatherEnvelope),
          Data("array", <<Id("abcdefghij")>>),
          Data("array", <<Id("abcdefghij"), SP, Id("klmnopqrs")>>)}

HFFailures ==
  { AxiosError(415, Str(<<"Unsupported media type">>)),
    AxiosError(400, Str(<<"Content-Type", "must be application/json">>)),
    AxiosError(403, Undef),
    AxiosError(403, Str(<<"Forbidden">>)),
    AxiosError(403, ErrObj(<<"Forbidden">>)),
    AxiosError(500, ErrObj(<<"Model is loading">>)),
    NetworkError }

HFReplies == {Ok(d) : d \in HFSuccesses} \cup {Fail(e) : e \in HFFailures}

NoOptions == Config(NULL, Unset, Unset, Unset)

Request(sys, img, hasContent, content, fns, directive, options) ==
  [prompt |-> <<"2+2?">>, systemPrompt |-> sys, image |-> img,
   hasContent |-> hasContent, content |-> content, functions |-> fns,
   functionCall |-> directive, options |-> options]

SystemPrompts == {<<>>, <<"reply with one word">>}

\* request.content: absent, or a list of parts
NoContent == [has |-> FALSE, parts |-> <<>>]
Content(parts) == [has |-> TRUE, parts |-> parts]

HFContents ==
  { NoContent, Content(<<>>), Content(<<TextPart(<<"describe">>)>>),
    Content(<<ImagePart("b.jpg")>>),
    Content(<<ImagePart("b.jpg"), ImagePart("c.gif")>>),
    Content(<<TextPart(<<"describe">>), ImagePart("a.png")>>),
    Content(<<ImagePart("https://host/d.webp"), ImagePart(MissingFile)>>) }

HFRequests ==
  {Request(sys, img, c.has, c.parts, <<>>, NoDirective,
           Config(m, Unset, Unset, Unset)) :
     sys \in SystemPrompts, img \in {NULL, "a.png", MissingFile},
     c \in HFContents,
     m \in {NULL, "opt-model"}}

HFConfigs == {Config(m, Unset, Unset, Unset) : m \in {NULL, "cfg-model"}}

HFInit ==
  /\ adapter = "huggingface"
  /\ instCfg \in HFConfigs
  /\ req \in HFRequests
  /\ pc = "start"
  /\ calls = <<>>
  /\ errors = <<>>
  /\ outcome = PendingOutcome
  /\ events = <<>>
  /\ IdleExtractor
  /\ IdleOthers

Sent(payload, reply) == [payload |-> payload, reply |-> reply]

\* the sources generateWithNestedFormat and generateWithMultipartForm
\* process: the convenience image, then the content images
OwnThenContent(r) == OwnSource(r) \o ContentSources(r)

\* the sources generateWithFlatFormat processes: the convenience image, or
\* else the first content image
HFFlatSources(r) ==
  IF r.image # NULL THEN <<r.image>> ELSE SubSeq(ContentSources(r), 1, 1)

\* generate -> generateTextOnly
HFGenerateTextOnly ==
  /\ adapter = "huggingface"
  /\ pc = "start"
  /\ ~HasImages(req)
  /\ \E reply \in HFReplies :
       LET config == MergeConfig(instCfg, req.options)
       IN  /\ calls' = Append(calls, Sent(HFTextPayload(req, config), reply))
           /\ events' = Append(events, PostEvent("text", reply.ok))
           /\ outcome' = IF reply.ok
                         THEN Resolved(HFTextOnlyResponse(reply.data))
                         ELSE Rejected(HFCatch(req, HFModel(config), reply.error))
  /\ pc' = "done"
  /\ instCfg' = InstanceConfigAfter(instCfg, req.options)
  /\ UNCHANGED <<adapter, req, errors, exVars, otherVars>>

\* generate -> generateWithImages -> generateWithNestedFormat
HFTryNestedFormat ==
  /\ adapter = "huggingface"
  /\ pc = "start"
  /\ HasImages(req)
  /\ \E reply \in HFReplies :
       LET config == MergeConfig(instCfg, req.options)
           srcs == OwnThenContent(req)
           tried == Append(events, AttemptEvent("nested")) \o ResolveAll(srcs)
       IN  IF ~AllValid(srcs)
           THEN /\ events' = tried
                /\ errors' = Append(errors, InvalidImageError)
                /\ pc' = "flat"
                /\ UNCHANGED <<calls, outcome>>
           ELSE /\ events' = Append(tried, PostEvent("nested", reply.ok))
                /\ calls' = Append(calls, Sent(HFNestedPayload(req, config), reply))
                /\ IF reply.ok
                   THEN /\ outcome' = Resolved(HFParseResponseWithFunctionCalls(reply.data))
                        /\ pc' = "done"
                        /\ errors' = errors
                   ELSE /\ errors' = Append(errors, reply.error)
                        /\ pc' = "flat"
                        /\ outcome' = outcome
  /\ instCfg' = InstanceConfigAfter(instCfg, req.options)
  /\ UNCHANGED <<adapter, req, exVars, otherVars>>

\* generateWithImages -> generateWithFlatFormat
HFTryFlatFormat ==
  /\ adapter = "huggingface"
  /\ pc = "flat"
  /\ \E reply \in HFReplies :
       LET config == MergeConfig(instCfg, req.options)
           srcs == HFFlatSources(req)
           tried == Append(events, AttemptEvent("flat")) \o ResolveAll(srcs)
       IN  IF ~AllValid(srcs)
           THEN /\ events' = tried
                /\ errors' = Append(errors, InvalidImageError)
                /\ pc' = "multipart"
                /\ UNCHANGED <<calls, outcome>>
           ELSE /\ events' = Append(tried, PostEvent("flat", reply.ok))
                /\ calls' = Append(calls, Sent(HFFlatPayload(req, config), reply))
                /\ IF reply.ok
                   THEN /\ outcome' = Resolved(HFParseResponseWithFunctionCalls(reply.data))
                        /\ pc' = "done"
                        /\ errors' = errors
                   ELSE /\ errors' = Append(errors, reply.error)
                        /\ pc' = "multipart"
                        /\ outcome' = outcome
  /\ instCfg' = InstanceConfigAfter(instCfg, req.options)
  /\ UNCHANGED <<adapter, req, exVars, otherVars>>

\* generateWithImages -> generateWithMultipartForm, then the aggregated
\* error and the catch of generate
HFTryMultipartForm ==
  /\ adapter = "huggingface"
  /\ pc = "multipart"
  /\ \E reply \in HFReplies :
       LET config == MergeConfig(instCfg, req.options)
           model == HFModel(config)
           srcs == OwnThenContent(req)
           tried == Append(events, AttemptEvent("multipart")) \o ResolveAll(srcs)
       IN  IF ~AllValid(srcs)
           THEN /\ events' = tried
                /\ errors' = Append(errors, InvalidImageError)
                /\ calls' = calls
                /\ outcome' = Rejected(HFCatch(req, model,
                                HFAggregatedError(model, errors')))
           ELSE /\ events' = Append(tried, PostEvent("multipart", reply.ok))
                /\ calls' = Append(calls, Sent(HFMultipartPayload(req, config), reply))
                /\ IF reply.ok
                   THEN /\ outcome' = Resolved(HFParseResponseWithFunctionCalls(reply.data))
                        /\ errors' = errors
                   ELSE /\ errors' = Append(errors, reply.error)
                        /\ outcome' = Rejected(HFCatch(req, model,
                                        HFAggregatedError(model, errors')))
  /\ pc' = "done"
  /\ instCfg' = InstanceConfigAfter(instCfg, req.options)
  /\ UNCHANGED <<adapter, req, exVars, otherVars>>

HFNext ==
  \/ HFGenerateTextOnly
  \/ HFTryNestedFormat
  \/ HFTryFlatFormat
  \/ HFTryMultipartForm

SpecHF == HFInit /\ [][HFNext]_vars

(***************************************************************************)
(* HuggingFace: stream.  The generated text is taken character by          *)
(* character: a token stands for the characters it is written with.        *)
(***************************************************************************)
\* the characters of the words that occur in the replies
Letters(w) ==
  CASE w = "Four" -> <<"F", "o", "u", "r">>
    [] w = "abcdefghij" -> <<"a", "b", "c", "d", "e", "f", "g", "h", "i", "j">>
    [] w = "klmnopqrs" -> <<"k", "l", "m", "n", "o", "p", "q", "r", "s">>
    [] w = "name" -> <<"n", "a", "m", "e">>
    [] w = "getWeather" -> <<"g", "e", "t", "W", "e", "a", "t", "h", "e", "r">>
    [] w = "arguments" -> <<"a", "r", "g", "u", "m", "e", "n", "t", "s">>
    [] w = "location" -> <<"l", "o", "c", "a", "t", "i", "o", "n">>
    [] w = "Tokyo" -> <<"T", "o", "k", "y", "o">>
    [] w = "unit" -> <<"u", "n", "i", "t">>
    [] w = "celsius" -> <<"c", "e", "l", "s", "i", "u", "s">>
    [] w = "generated_text" ->
         <<"g", "e", "n", "e", "r", "a", "t", "e", "d", "_", "t", "e", "x", "t">>
    [] w = "foo" -> <<"f", "o", "o">>
    [] w = "1" -> <<"1">>

\* the characters a token is written with
Spelling(tok) ==
  CASE tok.k = "str" -> <<"\"">> \o Letters(tok.s) \o <<"\"">>
    [] tok.k = "esc" -> <<"\\", "\"">> \o Letters(tok.s) \o <<"\\", "\"">>
    [] tok.k \in {"id", "num"} -> Letters(tok.s)
    [] tok.k = "fence" -> <<"BACKTICK", "BACKTICK", "BACKTICK">>
    [] OTHER -> <<tok.s>>

RECURSIVE Chars(_)
Chars(text) ==
  IF text = <<>> THEN <<>> ELSE Spelling(Head(text)) \o Chars(Tail(text))

\* const chunkSize = 10
ChunkSize == 10

\* the second argument taken as a length, as String.prototype.substr would
JsSliceFromStart(s, from, to) ==
  SubSeq(s, from + 1, IF to - from < Len(s) THEN to - from ELSE Len(s))

\* String.prototype.slice(from, to) with 0 <= from <= to, on characters
JsSlice(s, from, to) ==
  SubSeq(s, from + 1, IF to < Len(s) THEN to ELSE Len(s))

\* text.slice(i, i + chunkSize)
StreamChunk(text, i) == JsSlice(text, i, i + ChunkSize)

StreamRequests ==
  {Request(<<>>, img, FALSE, <<>>, <<>>, NoDirective, NoOptions) :
     img \in {NULL, "a.png"}}

HFStreamInit ==
  /\ adapter = "huggingface"
  /\ instCfg \in HFConfigs
  /\ req \in StreamRequests
  /\ pc = "idle"
  /\ calls = <<>>
  /\ errors = <<>>
  /\ outcome = PendingOutcome
  /\ events = <<>>
  /\ IdleExtractor
  /\ stream = [NoStream EXCEPT !.state = "called"]
  /\ creds = DefaultCreds
  /\ parked = NoParked
  /\ util = NoRun

\* stream: const response = await this.generate(request)
HFStreamCallsGenerate ==
  /\ stream.state = "called"
  /\ pc = "idle"
  /\ pc' = "start"
  /\ stream' = [stream EXCEPT !.state = "generating"]
  /\ UNCHANGED <<adapter, instCfg, req, calls, errors, outcome, events, exVars,
                 creds, parked, util>>

\* stream: generate rejected, the catch block rethrows the error
HFStreamRethrows ==
  /\ stream.state = "generating"
  /\ pc = "done"
  /\ outcome.state = "rejected"
  /\ stream' = [stream EXCEPT !.state = "thrown", !.error = outcome.error]
  /\ UNCHANGED <<callVars, exVars, creds, parked, util>>

\* stream: one turn of the loop, yield text.slice(i, i + chunkSize)
HFStreamYields ==
  /\ stream.state \in {"generating", "yielding"}
  /\ pc = "done"
  /\ outcome.state = "resolved"
  /\ LET text == Chars(outcome.response.text.v)
     IN  /\ stream.i < Len(text)
         /\ stream' = [stream EXCEPT
                         !.state = "yielding",
                         !.chunks = Append(@, StreamChunk(text, stream.i)),
                         !.i = @ + ChunkSize]
  /\ UNCHANGED <<callVars, exVars, creds, parked, util>>

\* stream: the loop condition fails and the generator returns
HFStreamReturns ==
  /\ stream.state \in {"generating", "yielding"}
  /\ pc = "done"
  /\ outcome.state = "resolved"
  /\ stream.i >= Len(Chars(outcome.response.text.v))
  /\ stream' = [stream EXCEPT !.state = "returned"]
  /\ UNCHANGED <<callVars, exVars, creds, parked, util>>

HFStreamNext ==
  \/ HFStreamCallsGenerate
  \/ HFGenerateTextOnly
  \/ HFTryNestedFormat
  \/ HFTryFlatFormat
  \/ HFTryMultipartForm
  \/ HFStreamRethrows
  \/ HFStreamYields
  \/ HFStreamReturns

SpecHFStream == HFStreamInit /\ [][HFStreamNext]_vars

\* the consumer drains the generator and every timer and reply arrives
FairSpecHFStream == SpecHFStream /\ WF_vars(HFStreamNext)

(***************************************************************************)
(* Claims about HuggingFace generate                                       *)
(***************************************************************************)
NestedFailedFlatSucceeded ==
  /\ Len(calls) >= 2
  /\ calls[1].payload.format = "nested" /\ ~calls[1].reply.ok
  /\ calls[2].payload.format = "flat" /\ calls[2].reply.ok

\* C1: when the nested format is rejected and the flat format succeeds,
\* generate resolves to the normalised response of the flat format's reply
\* (its generated text, its body as raw), the multipart format is never
\* attempted and no error reaches the caller.
C1_FlatFormatResultIsReturned ==
  NestedFailedFlatSucceeded =>
    LET data == calls[2].reply.data
    IN  /\ Len(calls) = 2
        /\ pc = "done"
        /\ outcome.state = "resolved"
        /\ outcome.error = NoError
        /\ outcome.response.raw = data
        /\ (data.shape \in {"array", "string"} \/ data.gt # <<>>)
             => outcome.response.text = Str(data.gt)
        /\ outcome.response.functionCalls
             = HFExtractFunctionCallsFromText(outcome.response.text.v)

C1_Witness ==
  /\ NestedFailedFlatSucceeded
  /\ calls[1].reply.error.status = 415
  /\ calls[2].reply.data = Data("string", <<Id("Four")>>)
  /\ outcome.state = "resolved"

FormatOrder == <<"nested", "flat", "multipart">>

\* the payload formats generateWithImages has attempted, in order
Attempted ==
  LET att == SelectSeq(events, LAMBDA e : e.op = "attempt")
  IN  [i \in 1..Len(att) |-> att[i].what]

AllThreeFailed ==
  /\ Len(Attempted) = 3
  /\ Len(errors) = 3

\* C2: with an image request the formats are attempted in the order nested,
\* flat, multipart, each only after the one before it failed and none twice;
\* when all three fail the caller receives one error whose message names the
\* cause of each attempt and suggests 'llava-hf/llava-1.5-7b-hf'.
C2_FormatsInOrderThenAggregatedError ==
  (adapter = "huggingface" /\ HasImages(req)) =>
    /\ Len(Attempted) <= 3
    /\ \A i \in 1..Len(Attempted) : Attempted[i] = FormatOrder[i]
    /\ Len(errors) \in {Len(Attempted) - 1, Len(Attempted)}
    /\ Len(errors) = Len(Attempted) - 1 => (Len(Attempted) = 0 \/ pc = "done")
    /\ \A i \in 1..Len(calls) :
         /\ \E n \in 1..Len(Attempted) : calls[i].payload.format = Attempted[n]
         /\ \A j \in 1..(i - 1) :
              /\ calls[j].payload.format # calls[i].payload.format
              /\ ~calls[j].reply.ok
    /\ (outcome.state = "pending") = (pc # "done")
    /\ AllThreeFailed =>
         /\ outcome.state = "rejected"
         /\ \A i \in 1..3 : Contains(outcome.error.message, errors[i].message)
         /\ \A i \in 1..Len(calls) :
              Contains(outcome.error.message, calls[i].reply.error.message)
         /\ Includes(outcome.error.message, SuggestedVisionModel)
    /\ outcome.state = "rejected" => AllThreeFailed

C2_Witness ==
  /\ HasImages(req)
  /\ AllThreeFailed
  /\ calls[1].reply.error.status = 415
  /\ calls[2].reply.error.status = 500
  /\ ~calls[3].reply.error.hasResponse
  /\ outcome.state = "rejected"

\* C7: a text-only request without system prompt returns the generated
\* content T for an array reply [{generated_text: T}], for an object reply
\* {generated_text: T} and for a bare string reply T.
C7_TextOnlyRoundTripsEveryShape ==
  ( /\ adapter = "huggingface"
    /\ ~HasImages(req)
    /\ req.systemPrompt = <<>>
    /\ outcome.state = "resolved"
    /\ calls[1].reply.data.shape \in {"array", "object", "string"} )
  => outcome.response.text = Str(calls[1].reply.data.gt)

\* the message m still carries the message or the body of the backend error e
Retains(m, e) ==
  \/ Contains(m, e.message)
  \/ e.data.t \in {"string", "object"} /\ Contains(m, e.data.v)

\* C8: whenever generate rejects after a backend failure, for every request
\* shape and every form of error body, the caller's error still contains the
\* backend's error message or payload, and the handler does not fail with an
\* unrelated error of its own.
C8_BackendCauseIsRetained ==
  (adapter = "huggingface" /\ outcome.state = "rejected") =>
    /\ outcome.error.name # "TypeError"
    /\ \A i \in 1..Len(calls) :
         ~calls[i].reply.ok => Retains(outcome.error.message, calls[i].reply.error)

\* C9: every generate call that fails because the backend answered 403,
\* text-only, with a content list or with images, rejects with the error
\* 'Permission denied for model "<model>" ...' naming the requested model.
C9_ForbiddenGivesPermissionGuidance ==
  ( /\ adapter = "huggingface"
    /\ outcome.state = "rejected"
    /\ \A i \in 1..Len(calls) :
         calls[i].reply.error.hasResponse /\ calls[i].reply.error.status = 403 )
  => /\ Len(outcome.error.message) >= 2
     /\ SubSeq(outcome.error.message, 1, 2)
          = <<"Permission denied for model",
              HFModel(MergeConfig(instCfg, req.options))>>

(***************************************************************************)
(* Requests and backend failures shared by the other adapters              *)
(***************************************************************************)
FunctionLists == {<<>>, <<"getWeather">>}

Requests ==
  {Request(sys, img, c.has, c.parts, fns, d, Config(m, Unset, Unset, Unset)) :
     sys \in SystemPrompts, img \in {NULL, "a.png", MissingFile},
     c \in HFContents,
     fns \in FunctionLists, d \in {NoDirective, Auto, Forbid, Force("getWeather")},
     m \in {NULL, "opt-model"}}

Configs == {Config(m, Unset, Unset, Unset) : m \in {NULL, "cfg-model"}}

ApiFailures ==
  { AxiosError(401, ErrObj(<<"Unauthorized">>)),
    AxiosError(429, Str(<<"Too many requests">>)),
    NetworkError }

\* config.model || <default>
ModelOr(config, default) == IF config.model # NULL THEN config.model ELSE default

\* a part of a message: text, or an image as processImage returns it
NoData == [base64 |-> NoImage, mimeType |-> ""]
TextItem(t) == [type |-> "text", text |-> t, image |-> NoData]
ImageItem(src) == [type |-> "image", text |-> <<>>, image |-> ProcessImage(src)]

\* the loop over request.content: text parts and processed images, in order
ContentItems(r) ==
  IF r.hasContent
  THEN [i \in 1..Len(r.content) |->
          IF r.content[i].type = "text" THEN TextItem(r.content[i].text)
          ELSE ImageItem(r.content[i].source)]
  ELSE <<>>

\* the base64 data of the images among message parts, in order
ItemImages(items) ==
  LET imgs == SelectSeq(items, LAMBDA it : it.type = "image")
  IN  [i \in 1..Len(imgs) |-> imgs[i].image.base64]

\* a message content that is a plain string, or a list of parts
StringContent(t) == [kind |-> "string", text |-> t, parts |-> <<>>]
PartsContent(items) == [kind |-> "parts", text |-> <<>>, parts |-> items]

Message(role, content) == [role |-> role, content |-> content]

(***************************************************************************)
(* OpenAI                                                                  *)
(***************************************************************************)
\* formatMessages
OpenAIFormatMessages(r) ==
  (IF r.systemPrompt # <<>>
   THEN <<Message("system", StringContent(r.systemPrompt))>> ELSE <<>>)
  \o (IF r.hasContent \/ r.image # NULL
      THEN <<Message("user", PartsContent(
               (IF r.prompt # <<>> THEN <<TextItem(r.prompt)>> ELSE <<>>)
               \o ContentItems(r)
               \o (IF r.image # NULL THEN <<ImageItem(r.image)>> ELSE <<>>)))>>
      ELSE <<Message("user", StringContent(r.prompt))>>)

\* prepareFunctionCalling: tools and tool_choice
\* the early return for requests without functions left out
OpenAIPrepareWithoutEarlyReturn(r) ==
  [tools |-> [i \in 1..Len(r.functions) |->
                [type |-> "function", function |-> r.functions[i]]],
   tool_choice |-> CASE r.functionCall.kind = "auto" -> "auto"
                     [] r.functionCall.kind = "none" -> "none"
                     [] r.functionCall.kind = "forced" -> r.functionCall.name
                     [] OTHER -> "undefined"]

OpenAIPrepareFunctionCalling(r) ==
  IF ~HasFunctions(r) THEN [tools |-> <<>>, tool_choice |-> "undefined"]
  ELSE [tools |-> [i \in 1..Len(r.functions) |->
                     [type |-> "function", function |-> r.functions[i]]],
        tool_choice |-> CASE r.functionCall.kind = "auto" -> "auto"
                          [] r.functionCall.kind = "none" -> "none"
                          [] r.functionCall.kind = "forced" -> r.functionCall.name
                          [] OTHER -> "undefined"]

\* the argument of client.chat.completions.create
OpenAIPayload(r, config) ==
  [api |-> "openai",
   model |-> ModelOr(config, "gpt-3.5-turbo"),
   messages |-> OpenAIFormatMessages(r),
   temperature |-> config.temperature,
   max_tokens |-> config.maxTokens,
   top_p |-> config.topP,
   options |-> OpenAIPrepareFunctionCalling(r)]

\* choices[0].message of a chat completion
ChatMessage(content, toolCalls) == [content |-> content, tool_calls |-> toolCalls]
ToolCall(type, name, args) == [type |-> type, name |-> name, arguments |-> args]

\* processFunctionCalls
OpenAIProcessFunctionCalls(message) ==
  IF ~message.tool_calls.defined \/ Len(message.tool_calls.list) = 0
  THEN NoCalls
  ELSE LET fs == SelectSeq(message.tool_calls.list,
                           LAMBDA c : c.type = "function")
       IN  Calls([i \in 1..Len(fs) |-> Call(fs[i].name, fs[i].arguments)])

\* content || ""
OrEmpty(x) == IF Truthy(x) THEN x ELSE Str(<<>>)

\* generate: the response built from a completion
OpenAIResponse(message) ==
  Response(OrEmpty(message.content), OpenAIProcessFunctionCalls(message), message)

WeatherCallArgs == Minify(WeatherObject)

ChatContents == {Null, Str(<<>>), Str(<<Id("Four")>>)}

OpenAIMessages ==
  {ChatMessage(c, t) :
     c \in ChatContents,
     t \in {NoCalls, Calls(<<>>),
            Calls(<<ToolCall("function", "getWeather", WeatherCallArgs)>>),
            Calls(<<ToolCall("custom", "lookup", EmptyObject)>>)}}

OpenAIReplies ==
  {Ok(m) : m \in OpenAIMessages} \cup {Fail(e) : e \in ApiFailures}

OpenAIInit ==
  /\ adapter = "openai"
  /\ instCfg \in Configs
  /\ req \in Requests
  /\ pc = "start"
  /\ calls = <<>>
  /\ errors = <<>>
  /\ outcome = PendingOutcome
  /\ events = <<>>
  /\ IdleExtractor
  /\ IdleOthers

\* OpenAIModel.generate; an error of the client reaches the caller unchanged
OpenAIGenerate ==
  /\ adapter = "openai"
  /\ pc = "start"
  /\ \E reply \in OpenAIReplies :
       LET config == MergeConfig(instCfg, req.options)
           srcs == ContentThenOwn(req)
       IN  IF ~AllValid(srcs)
           THEN /\ events' = events \o ResolveAll(srcs)
                /\ calls' = calls
                /\ outcome' = Rejected(InvalidImageError)
           ELSE /\ events' = Append(events \o ResolveAll(srcs),
                                    PostEvent("openai", reply.ok))
                /\ calls' = Append(calls, Sent(OpenAIPayload(req, config), reply))
                /\ outcome' = IF reply.ok
                              THEN Resolved(OpenAIResponse(reply.data))
                              ELSE Rejected(reply.error)
  /\ pc' = "done"
  /\ instCfg' = InstanceConfigAfter(instCfg, req.options)
  /\ UNCHANGED <<adapter, req, errors, exVars, otherVars>>

(***************************************************************************)
(* DeepSeek                                                                *)
(***************************************************************************)
\* generate: the payload
DeepSeekPayload(r, config) ==
  [api |-> "deepseek",
   model |-> ModelOr(config, "deepseek-chat"),
   messages |-> (IF r.systemPrompt # <<>>
                 THEN <<Message("system", StringContent(r.systemPrompt))>>
                 ELSE <<>>)
                \o <<Message("user", StringContent(r.prompt))>>,
   temperature |-> config.temperature,
   max_tokens |-> config.maxTokens,
   top_p |-> config.topP,
   functions |-> r.functions,
   function_call |-> IF ~HasFunctions(r) THEN "undefined"
                     ELSE CASE r.functionCall.kind = "auto" -> "auto"
                            [] r.functionCall.kind = "none" -> "none"
                            [] r.functionCall.kind = "forced" -> r.functionCall.name
                            [] OTHER -> "undefined"]

\* choices[0].message of a DeepSeek completion: function_call is absent or
\* one call
DeepSeekMessage(content, functionCall) ==
  [content |-> content, function_call |-> functionCall]

\* processFunctionCalls
DeepSeekProcessFunctionCalls(message) ==
  IF ~message.function_call.defined THEN NoCalls
  ELSE Calls(<<message.function_call.list[1]>>)

\* generate: the response built from a completion
DeepSeekResponse(message) ==
  Response(message.content, DeepSeekProcessFunctionCalls(message), message)

DeepSeekMessages ==
  {DeepSeekMessage(c, f) :
     c \in ChatContents,
     f \in {NoCalls, Calls(<<Call("getWeather", WeatherCallArgs)>>)}}

DeepSeekReplies ==
  {Ok(m) : m \in DeepSeekMessages} \cup {Fail(e) : e \in ApiFailures}

DeepSeekInit ==
  /\ adapter = "deepseek"
  /\ instCfg \in Configs
  /\ req \in Requests
  /\ pc = "start"
  /\ calls = <<>>
  /\ errors = <<>>
  /\ outcome = PendingOutcome
  /\ events = <<>>
  /\ IdleExtractor
  /\ IdleOthers

\* DeepSeekModel.generate; an error of axios reaches the caller unchanged
DeepSeekGenerate ==
  /\ adapter = "deepseek"
  /\ pc = "start"
  /\ \E reply \in DeepSeekReplies :
       LET config == MergeConfig(instCfg, req.options)
       IN  /\ calls' = Append(calls, Sent(DeepSeekPayload(req, config), reply))
           /\ events' = Append(events, PostEvent("deepseek", reply.ok))
           /\ outcome' = IF reply.ok THEN Resolved(DeepSeekResponse(reply.data))
                         ELSE Rejected(reply.error)
  /\ pc' = "done"
  /\ instCfg' = InstanceConfigAfter(instCfg, req.options)
  /\ UNCHANGED <<adapter, req, errors, exVars, otherVars>>

(***************************************************************************)
(* Google                                                                  *)
(***************************************************************************)
\* generate: the prompt of the function calling path
GoogleEnhancedPrompt(r) ==
  WithSystemPrompt(r)
  \o <<"You have access to the following functions:", "json">> \o r.functions
  \o (IF r.functionCall.kind = "forced"
      THEN <<"You MUST use the function:", r.functionCall.name,
             "Format your response as a function call using JSON",
             "Don't include any explanations, just output the function call.">>
      ELSE IF r.functionCall.kind = "auto"
      THEN <<"If appropriate for the request, call one of these functions.",
             "Format your response as a function call using JSON">>
      ELSE <<>>)

\* formatMultiModalContent
GoogleFormatMultiModalContent(r) ==
  (IF r.systemPrompt # <<>> THEN <<TextItem(r.systemPrompt)>> ELSE <<>>)
  \o (IF r.prompt # <<>> THEN <<TextItem(r.prompt)>> ELSE <<>>)
  \o ContentItems(r)
  \o (IF r.image # NULL THEN <<ImageItem(r.image)>> ELSE <<>>)

\* getGenerativeModel(modelConfig) and the argument of generateContent
GooglePayload(config, content) ==
  [api |-> "google",
   model |-> ModelOr(config, "gemini-2.0-flash"),
   temperature |-> config.temperature,
   maxOutputTokens |-> config.maxTokens,
   topP |-> config.topP,
   content |-> content]

\* result.response: text() returns the text or throws
GoogleResult(text, throws) == [text |-> text, throws |-> throws]

BlockedError == PlainError(<<"Text not available. Response was blocked">>)

GoogleTexts ==
  { <<>>, <<Id("Four")>>, WeatherEnvelope,
    <<FENCE, Id("json"), NL>> \o WeatherEnvelope \o <<NL, FENCE>> }

GoogleReplies ==
  {Ok(GoogleResult(t, FALSE)) : t \in GoogleTexts}
    \cup {Ok(GoogleResult(<<>>, TRUE))}
    \cup {Fail(e) : e \in ApiFailures}

GoogleInit ==
  /\ adapter = "google"
  /\ instCfg \in Configs
  /\ req \in Requests
  /\ pc = "start"
  /\ calls = <<>>
  /\ errors = <<>>
  /\ outcome = PendingOutcome
  /\ events = <<>>
  /\ IdleExtractor
  /\ IdleOthers

\* generate, the function calling path: any failure falls through to the
\* regular generation
GoogleGenerateWithFunctions ==
  /\ adapter = "google"
  /\ pc = "start"
  /\ HasFunctions(req)
  /\ \E reply \in GoogleReplies :
       LET config == MergeConfig(instCfg, req.options)
           content == PartsContent(<<TextItem(GoogleEnhancedPrompt(req))>>)
       IN  /\ calls' = Append(calls, Sent(GooglePayload(config, content), reply))
           /\ events' = Append(events, PostEvent("google", reply.ok))
           /\ IF reply.ok /\ ~reply.data.throws
              THEN /\ outcome' = Resolved(Response(Str(reply.data.text),
                         GoogleExtractFunctionCallsFromText(reply.data.text),
                         reply.data))
                   /\ pc' = "done"
                   /\ errors' = errors
              ELSE /\ errors' = Append(errors, IF reply.ok THEN BlockedError
                                               ELSE reply.error)
                   /\ pc' = "fallback"
                   /\ outcome' = outcome
  /\ instCfg' = InstanceConfigAfter(instCfg, req.options)
  /\ UNCHANGED <<adapter, req, exVars, otherVars>>

\* generate, the regular generation
GoogleGenerateContent ==
  /\ adapter = "google"
  /\ \/ pc = "start" /\ ~HasFunctions(req)
     \/ pc = "fallback"
  /\ \E reply \in GoogleReplies :
       LET config == MergeConfig(instCfg, req.options)
           content == PartsContent(GoogleFormatMultiModalContent(req))
           srcs == ContentThenOwn(req)
       IN  IF ~AllValid(srcs)
           THEN /\ events' = events \o ResolveAll(srcs)
                /\ calls' = calls
                /\ outcome' = Rejected(InvalidImageError)
           ELSE /\ events' = Append(events \o ResolveAll(srcs),
                                    PostEvent("google", reply.ok))
                /\ calls' = Append(calls, Sent(GooglePayload(config, content), reply))
                /\ outcome' = IF reply.ok /\ ~reply.data.throws
                              THEN Resolved(Response(Str(reply.data.text), NoCalls,
                                                     reply.data))
                              ELSE IF reply.ok THEN Rejected(BlockedError)
                              ELSE Rejected(reply.error)
  /\ pc' = "done"
  /\ instCfg' = InstanceConfigAfter(instCfg, req.options)
  /\ UNCHANGED <<adapter, req, errors, exVars, otherVars>>

(***************************************************************************)
(* Ollama                                                                  *)
(***************************************************************************)
\* createRequestPayload: the system message that carries the functions
OllamaFunctionSystemPrompt(r) ==
  <<"You are a helpful AI assistant with access to functions.",
    "Available functions:", "json">> \o r.functions
  \o (IF r.functionCall.kind = "forced"
      THEN <<"You must call the function:", r.functionCall.name,
             "Format your response as a function call using this exact format:">>
      ELSE IF r.functionCall.kind = "auto"
      THEN <<"Call one of these functions if appropriate for the user's request.",
             "Format your response as a function call using this exact format:">>
      ELSE <<>>)

\* createRequestPayload: chat format or generate format
UseMessagesFormat(r) ==
  HasImages(r) \/ HasFunctions(r) \/ r.systemPrompt # <<>>

OllamaMessages(r) ==
  LET userContent ==
        (IF r.prompt # <<>> THEN <<TextItem(r.prompt)>> ELSE <<>>)
        \o ContentItems(r)
        \o (IF r.image # NULL THEN <<ImageItem(r.image)>> ELSE <<>>)
  IN  (IF r.systemPrompt # <<>>
       THEN <<Message("system", StringContent(r.systemPrompt))>>
       ELSE IF HasFunctions(r)
       THEN <<Message("system", StringContent(OllamaFunctionSystemPrompt(r)))>>
       ELSE <<>>)
      \o <<Message("user",
             IF Len(userContent) = 1 /\ userContent[1].type = "text"
             THEN StringContent(userContent[1].text)
             ELSE IF Len(userContent) > 0 THEN PartsContent(userContent)
             ELSE StringContent(<<>>))>>

\* createRequestPayload, with the stream flag generate sets
OllamaCreateRequestPayload(r, config) ==
  [api |-> "ollama",
   endpoint |-> IF UseMessagesFormat(r) THEN "chat" ELSE "generate",
   model |-> ModelOr(config, "llama3"),
   temperature |-> config.temperature,
   top_p |-> config.topP,
   num_predict |-> IF UseMessagesFormat(r) THEN Unset
                   ELSE OrDefault(config.maxTokens, Unset),
   stream |-> TRUE,
   messages |-> IF UseMessagesFormat(r) THEN OllamaMessages(r) ELSE <<>>,
   prompt |-> IF UseMessagesFormat(r) THEN <<>> ELSE WithSystemPrompt(r)]

\* a line of the response stream: one that parses carries message.content
\* (chat) and response (generate); a fragment of a line does not parse
Line(chat, generate) == [parses |-> TRUE, chat |-> chat, generate |-> generate]
Fragment == [parses |-> FALSE, chat |-> <<>>, generate |-> <<>>]

\* generate: the text a line contributes
LineText(endpoint, line) ==
  IF ~line.parses THEN <<>>
  ELSE IF endpoint = "chat" THEN line.chat ELSE line.generate

\* generate: the accumulated responseText of the chunks
RECURSIVE OllamaResponseText(_, _)
OllamaResponseText(endpoint, chunks) ==
  IF chunks = <<>> THEN <<>>
  ELSE Flatten([i \in 1..Len(Head(chunks)) |-> LineText(endpoint, Head(chunks)[i])])
       \o OllamaResponseText(endpoint, Tail(chunks))

\* generate: the response built from the stream
OllamaResponse(r, endpoint, chunks) ==
  LET responseText == OllamaResponseText(endpoint, chunks)
  IN  Response(Str(responseText),
               OllamaExtractFunctionCallsFromText(responseText, r.functionCall),
               [response |-> responseText])

\* error.response?.data?.error as a string with the word w
ErrorTextIncludes(e, w) ==
  e.hasResponse /\ e.data.t = "object" /\ Includes(e.data.v, w)

\* generate, catch: the error that reaches the caller for the error e
OllamaCatch(r, config, e) ==
  IF /\ e.hasResponse /\ e.status = 400
     /\ HasImageOrContent(r)
     /\ \/ ErrorTextIncludes(e, "image")
        \/ ErrorTextIncludes(e, "multimodal")
        \/ ErrorTextIncludes(e, "vision")
  THEN PlainError(<<"The model", ModelOr(config, "default"),
                    "doesn't support multimodal inputs.",
                    "Try a vision-capable model like \"llama-3.2-vision\" or \"llava\".",
                    "Original error:">> \o e.message)
  ELSE IF \/ e.hasResponse /\ e.status = 404
          \/ /\ e.hasResponse /\ e.data.t = "object"
             /\ Includes(ToLowerCase(e.data.v), "model")
             /\ Includes(ToLowerCase(e.data.v), "not")
  THEN PlainError(<<"Model", ModelOr(config, "default"),
                    "not found or not loaded in Ollama.",
                    "Make sure the model is installed with", "ollama pull",
                    ModelOr(config, "llama2"), "Original error:">>
                  \o (IF e.data.t = "object" /\ e.data.v # <<>> THEN e.data.v
                      ELSE e.message))
  ELSE e

Both(t) == Line(t, t)

\* for await (const chunk of reader): the lines each chunk holds when the
\* reply body, one JSON line after the other, arrives cut as cuts says.
\* cuts[i] tells what the transport does with line i: "whole" keeps it in
\* the running chunk, "after" ends the chunk behind its newline, "inside"
\* ends the chunk in the middle of the line, so that both chunks get a
\* fragment of it.
RECURSIVE ChunkLines(_, _, _)
ChunkLines(lines, cuts, cur) ==
  IF lines = <<>> THEN (IF cur = <<>> THEN <<>> ELSE <<cur>>)
  ELSE IF Head(cuts) = "whole"
  THEN ChunkLines(Tail(lines), Tail(cuts), Append(cur, Head(lines)))
  ELSE IF Head(cuts) = "after"
  THEN <<Append(cur, Head(lines))>> \o ChunkLines(Tail(lines), Tail(cuts), <<>>)
  ELSE <<Append(cur, Fragment)>> \o ChunkLines(Tail(lines), Tail(cuts), <<Fragment>>)

Cuts == {"whole", "after", "inside"}

\* a reply body and one way the transport cuts it
Body(lines, cuts) == [lines |-> lines, cuts |-> cuts]

FourFive == <<Both(<<Id("Four")>>), Both(<<SP>>), Both(<<Id("five")>>)>>

OllamaBodies ==
  { Body(<<>>, <<>>),
    Body(<<Both(<<Id("Four")>>)>>, <<"whole">>),
    Body(<<Both(SubSeq(WeatherEnvelope, 1, 10)),
           Both(SubSeq(WeatherEnvelope, 11, Len(WeatherEnvelope)))>>,
         <<"after", "whole">>),
    Body(<<Line(<<Id("chat")>>, <<>>), Line(<<>>, <<Id("generate")>>)>>,
         <<"whole", "whole">>) }
  \cup {Body(FourFive, c) : c \in [1..3 -> Cuts]}

OllamaFailures ==
  { AxiosError(404, Undef),
    AxiosError(404, ErrObj(<<"model", "'x'", "not", "found, try pulling it first">>)),
    AxiosError(500, ErrObj(<<"Model", "is", "Not", "loaded">>)),
    AxiosError(400, ErrObj(<<"this", "model", "does", "not", "support", "image", "input">>)),
    AxiosError(400, ErrObj(<<"invalid request">>)),
    AxiosError(500, Str(<<"Internal Server Error">>)),
    NetworkError }

\* response.data of a streamed reply: the chunks in their order of arrival
Stream(body) ==
  [lines |-> body.lines, chunks |-> ChunkLines(body.lines, body.cuts, <<>>)]

OllamaReplies ==
  {Ok(Stream(b)) : b \in OllamaBodies} \cup {Fail(e) : e \in OllamaFailures}

OllamaInit ==
  /\ adapter = "ollama"
  /\ instCfg \in Configs
  /\ req \in Requests
  /\ pc = "start"
  /\ calls = <<>>
  /\ errors = <<>>
  /\ outcome = PendingOutcome
  /\ events = <<>>
  /\ IdleExtractor
  /\ IdleOthers

\* OllamaModel.generate
OllamaGenerate ==
  /\ adapter = "ollama"
  /\ pc = "start"
  /\ \E reply \in OllamaReplies :
       LET config == MergeConfig(instCfg, req.options)
           payload == OllamaCreateRequestPayload(req, config)
           srcs == IF UseMessagesFormat(req) THEN ContentThenOwn(req) ELSE <<>>
       IN  IF ~AllValid(srcs)
           THEN /\ events' = events \o ResolveAll(srcs)
                /\ calls' = calls
                /\ outcome' = Rejected(OllamaCatch(req, config, InvalidImageError))
           ELSE /\ events' = Append(events \o ResolveAll(srcs),
                                    PostEvent(payload.endpoint, reply.ok))
                /\ calls' = Append(calls, Sent(payload, reply))
                /\ outcome' = IF reply.ok
                              THEN Resolved(OllamaResponse(req, payload.endpoint,
                                                           reply.data.chunks))
                              ELSE Rejected(OllamaCatch(req, config, reply.error))
  /\ pc' = "done"
  /\ instCfg' = InstanceConfigAfter(instCfg, req.options)
  /\ UNCHANGED <<adapter, req, errors, exVars, otherVars>>

(***************************************************************************)
(* All adapters                                                            *)
(***************************************************************************)
Init == HFInit \/ OpenAIInit \/ GoogleInit \/ DeepSeekInit \/ OllamaInit

Next ==
  \/ HFGenerateTextOnly
  \/ HFTryNestedFormat
  \/ HFTryFlatFormat
  \/ HFTryMultipartForm
  \/ OpenAIGenerate
  \/ GoogleGenerateWithFunctions
  \/ GoogleGenerateContent
  \/ DeepSeekGenerate
  \/ OllamaGenerate

Spec == Init /\ [][Next]_vars

(***************************************************************************)
(* Claims about every adapter                                              *)
(***************************************************************************)
\* the images among the messages of a chat payload, in order
MessageImages(messages) ==
  Flatten([i \in 1..Len(messages) |-> ItemImages(messages[i].content.parts)])

\* the images a payload carries, in the order of the payload
PayloadImages(a, payload) ==
  CASE a = "huggingface" -> HFPayloadImages(payload)
    [] a = "openai" -> MessageImages(payload.messages)
    [] a = "ollama" -> MessageImages(payload.messages)
    [] a = "google" -> ItemImages(payload.content.parts)
    [] OTHER -> <<>>

ImageAdapters == {"openai", "google", "ollama", "huggingface"}

\* the content images in their order with the convenience image at some place
AllImagesOf(r) ==
  LET imgs == Base64s(ContentImages(r))
  IN  {SubSeq(imgs, 1, n) \o <<Base64(r.image)>> \o SubSeq(imgs, n + 1, Len(imgs)) :
         n \in 0..Len(imgs)}

\* C5: for OpenAI, Google, Ollama and each payload format of HuggingFace, a
\* request with the convenience image and a content list of k images sends a
\* payload with all k+1 images: the content images in their order plus the
\* convenience image, none overwritten, dropped or deduplicated.
C5_ConvenienceAndContentImagesAreAllSent ==
  \A i \in 1..Len(calls) :
    (adapter \in ImageAdapters /\ req.image # NULL /\ req.hasContent)
      => PayloadImages(adapter, calls[i].payload) \in AllImagesOf(req)

\* C6: for every adapter, the response generate resolves to has a text that
\* is a string, possibly empty, never null or undefined, also when the reply
\* carries a function call and no textual content.
C6_ResolvedTextIsAString ==
  (adapter # "none" /\ outcome.state = "resolved")
    => outcome.response.text.t = "string"

\* the backend answered 404, or with an error text that has 'model' and 'not'
ModelMissing(e) ==
  /\ e.hasResponse
  /\ \/ e.status = 404
     \/ /\ e.data.t = "object"
        /\ Includes(ToLowerCase(e.data.v), "model")
        /\ Includes(ToLowerCase(e.data.v), "not")

\* C10: when Ollama generate fails with status 404 or with an error text
\* containing 'model' and 'not', it rejects with the pull-the-model guidance
\* and the model named there, after 'Model' and after 'ollama pull', is the
\* model identifier of the payload that was sent, configured or default.
C10_PullGuidanceNamesTheModelSent ==
  ( /\ adapter = "ollama"
    /\ outcome.state = "rejected"
    /\ ModelMissing(calls[1].reply.error) )
  => LET m == outcome.error.message
     IN  /\ Len(m) >= 6
         /\ m[1] = "Model"
         /\ m[2] = calls[1].payload.model
         /\ m[5] = "ollama pull"
         /\ m[6] = calls[1].payload.model

\* C11: for every adapter, the raw field of the response generate resolves
\* to is the body of the backend reply exactly as it was received, nothing
\* synthesized or rebuilt by the adapter.
C11_RawIsTheBackendBody ==
  (adapter # "none" /\ outcome.state = "resolved")
    => outcome.response.raw = calls[Len(calls)].reply.data

\* the message is a system message with the function definitions as a JSON
\* block and, where a call is asked for, the formatting instructions
CarriesFunctions(msg, r) ==
  /\ msg.role = "system"
  /\ msg.content.kind = "string"
  /\ Contains(msg.content.text, <<"Available functions:", "json">> \o r.functions)
  /\ r.functionCall.kind \in {"auto", "forced"}
       => Includes(msg.content.text,
                   "Format your response as a function call using this exact format:")

\* C12: whenever an Ollama request has at least one function definition,
\* the messages sent to the backend contain a system message that carries
\* the function definitions as a JSON block with the call-formatting
\* instructions, whether or not the request has its own system prompt.
C12_FunctionsReachTheSystemMessage ==
  \A i \in 1..Len(calls) :
    (adapter = "ollama" /\ HasFunctions(req))
      => \E j \in 1..Len(calls[i].payload.messages) :
           CarriesFunctions(calls[i].payload.messages[j], req)

(***************************************************************************)
(* Two calls on one instance.  The variables req, pc, calls, errors,       *)
(* outcome and events are the locals of the call that runs; the locals of  *)
(* the other call, suspended at an await, are parked.                      *)
(***************************************************************************)
Locals(id, r, at, sent, errs, out, evs, built) ==
  [id |-> id, req |-> r, pc |-> at, calls |-> sent, errors |-> errs,
   outcome |-> out, events |-> evs, constructed |-> built]

\* the requests of the first call, and the request of the second
ConcurrentRequests ==
  {Request(<<>>, img, FALSE, <<>>, fns, IF fns = <<>> THEN NoDirective ELSE Auto,
           NoOptions) :
     img \in {NULL, "a.png"}, fns \in FunctionLists}

SecondRequest ==
  Request(<<"reply with one word">>, NULL, FALSE, <<>>, <<>>, NoDirective,
          Config("opt-model", 9, 100, Unset))

ConcurrentInit ==
  /\ adapter \in {"huggingface", "openai", "google", "deepseek", "ollama"}
  /\ instCfg = Config("cfg-model", 2, Unset, Unset)
  /\ req \in ConcurrentRequests
  /\ adapter = "huggingface" => req.functions = <<>>
  /\ pc = "start"
  /\ calls = <<>>
  /\ errors = <<>>
  /\ outcome = PendingOutcome
  /\ events = <<>>
  /\ IdleExtractor
  /\ stream = NoStream
  /\ creds = DefaultCreds
  /\ parked = Locals(2, SecondRequest, "start", <<>>, <<>>, PendingOutcome, <<>>,
                     instCfg)
  /\ util = NoRun

\* the running call is suspended at an await and the other call runs on
Switch ==
  /\ parked.id # 0
  /\ req' = parked.req
  /\ pc' = parked.pc
  /\ calls' = parked.calls
  /\ errors' = parked.errors
  /\ outcome' = parked.outcome
  /\ events' = parked.events
  /\ parked' = Locals(3 - parked.id, req, pc, calls, errors, outcome, events,
                      parked.constructed)
  /\ UNCHANGED <<adapter, instCfg, exVars, stream, creds, util>>

ConcurrentNext == Next \/ Switch

SpecConcurrent == ConcurrentInit /\ [][ConcurrentNext]_vars

(***************************************************************************)
(* C14: the Google fallback from the function calling path                 *)
(***************************************************************************)
\* the function calling path of generate has thrown and generate has ended
FunctionPathThrew ==
  adapter = "google" /\ HasFunctions(req) /\ Len(errors) = 1 /\ pc = "done"

\* call number i is the regular generation and its text could be read
PlainCallSucceeded(i) ==
  /\ i <= Len(calls)
  /\ calls[i].payload.content = PartsContent(GoogleFormatMultiModalContent(req))
  /\ calls[i].reply.ok
  /\ ~calls[i].reply.data.throws

\* C14: with function definitions, when the call of the function calling path
\* throws, generate issues exactly one regular generation call; when that call
\* succeeds generate resolves to its text and raw without functionCalls; an
\* error reaches the caller only if the regular call failed too; never more
\* than two backend calls.
C14_FallbackIssuesOnePlainCall ==
  (adapter = "google" /\ HasFunctions(req)) =>
    /\ Len(calls) <= 2
    /\ FunctionPathThrew =>
         /\ Len(calls) = 2
         /\ PlainCallSucceeded(2) =>
              outcome = Resolved(Response(Str(calls[2].reply.data.text), NoCalls,
                                          calls[2].reply.data))
         /\ outcome.state = "rejected" => ~PlainCallSucceeded(2)
         /\ outcome.state = "rejected" =>
              outcome.error = (IF calls[2].reply.ok THEN BlockedError
                               ELSE calls[2].reply.error)

(***************************************************************************)
(* C15: the chunks of HuggingFace stream                                   *)
(***************************************************************************)
RECURSIVE Concat(_)
Concat(chunks) ==
  IF chunks = <<>> THEN <<>> ELSE Head(chunks) \o Concat(Tail(chunks))

\* ceil(n / d)
CeilDiv(n, d) == (n + d - 1) \div d

StreamedText == Chars(outcome.response.text.v)

StreamEnded == stream.state \in {"returned", "thrown"}

ChunksAreSlicesOfTheText ==
  /\ stream.chunks # <<>> =>
       /\ pc = "done"
       /\ outcome.state = "resolved"
       /\ Len(calls) <= (IF HasImages(req) THEN 3 ELSE 1)
       /\ calls[Len(calls)].reply.ok
       /\ \A i \in 1..(Len(calls) - 1) : ~calls[i].reply.ok
  /\ stream.state = "generating" => stream.chunks = <<>>
  /\ \A k \in 1..Len(stream.chunks) :
       /\ Len(stream.chunks[k]) \in 1..ChunkSize
       /\ k < Len(stream.chunks) => Len(stream.chunks[k]) = ChunkSize
       /\ stream.chunks[k] =
            SubSeq(StreamedText, (k - 1) * ChunkSize + 1,
                   (k - 1) * ChunkSize + Len(stream.chunks[k]))
  /\ stream.state = "returned" =>
       /\ outcome.state = "resolved"
       /\ Concat(stream.chunks) = StreamedText
       /\ Len(stream.chunks) = CeilDiv(Len(StreamedText), ChunkSize)
       /\ StreamedText = <<>> => stream.chunks = <<>>
  /\ stream.state = "thrown" =>
       /\ outcome.state = "rejected"
       /\ stream.error = outcome.error
       /\ stream.chunks = <<>>
  /\ outcome.state = "rejected" => stream.chunks = <<>>

\* C15: stream runs generate once and yields only after it resolved; the
\* chunks are consecutive slices of 10 characters of the generated text, the
\* last possibly shorter and none empty; joined in order they are the text;
\* there is none for the empty text; the generator ends after
\* ceil(length / 10) chunks; when generate rejects, its error is thrown
\* before any chunk is yielded.
C15_StreamYieldsTheTextInTens ==
  /\ []ChunksAreSlicesOfTheText
  /\ <>StreamEnded

\* a text of several full chunks and a shorter last one has been streamed
C15_Witness ==
  /\ stream.state = "returned"
  /\ Len(stream.chunks) >= 3
  /\ Len(stream.chunks[Len(stream.chunks)]) < ChunkSize
  /\ Len(stream.chunks[1]) = ChunkSize

(***************************************************************************)
(* C16, C17: image resolution and the backend request                      *)
(***************************************************************************)
\* the sources resolved so far, in the order of their resolution
ResolvedSources ==
  LET res == SelectSeq(events, LAMBDA e : e.op = "resolve")
  IN  [i \in 1..Len(res) |-> res[i].what]

Posted == \E i \in 1..Len(events) : events[i].op = "post"

IsPrefix(s, t) == Len(s) <= Len(t) /\ s = SubSeq(t, 1, Len(s))

\* C16: a generate call resolves each image of its request exactly once, in
\* request order, and no image is resolved once a backend request has been
\* issued; on every adapter that takes images, the HuggingFace fallback
\* included.
C16_ImagesResolvedOnceBeforeTheRequest ==
  adapter \in ImageAdapters =>
    /\ \A i, j \in 1..Len(events) :
         (events[i].op = "post" /\ events[j].op = "resolve") => j < i
    /\ \/ IsPrefix(ResolvedSources, ContentThenOwn(req))
       \/ IsPrefix(ResolvedSources, OwnThenContent(req))
    /\ Posted => ResolvedSources \in {ContentThenOwn(req), OwnThenContent(req)}

\* some image source of the request cannot be resolved
HasInvalidImage(r) == ~AllValid(ContentThenOwn(r))

\* C17: when the convenience image or any content image of the request is
\* invalid, generate rejects and no backend request is sent for the call, on
\* every adapter that takes images.
C17_InvalidImageStopsTheCall ==
  (adapter \in ImageAdapters /\ HasInvalidImage(req)) =>
    /\ ~Posted
    /\ calls = <<>>
    /\ pc = "done" => outcome.state = "rejected"

(***************************************************************************)
(* C18: the sampling parameters sent to the backend.  Temperatures and     *)
(* top-p are in tenths.                                                    *)
(***************************************************************************)
ParamInstanceConfigs ==
  { Config(NULL, Unset, Unset, Unset),
    Config(NULL, 2, Unset, Unset),
    Config(NULL, 0, 0, 0),
    Config(NULL, 2, 50, 5) }

ParamOptions ==
  { NoOptions,
    Config(NULL, 9, 100, Unset),
    Config(NULL, 0, Unset, Unset),
    Config(NULL, Unset, 0, 0) }

ParamRequests ==
  {Request(<<>>, img, FALSE, <<>>, fns, IF fns = <<>> THEN NoDirective ELSE Auto, o) :
     img \in {NULL, "a.png"}, fns \in FunctionLists, o \in ParamOptions}

ParamInit ==
  /\ adapter \in {"huggingface", "openai", "google", "deepseek", "ollama"}
  /\ instCfg \in ParamInstanceConfigs
  /\ req \in ParamRequests
  /\ adapter = "huggingface" => req.functions = <<>>
  /\ pc = "start"
  /\ calls = <<>>
  /\ errors = <<>>
  /\ outcome = PendingOutcome
  /\ events = <<>>
  /\ IdleExtractor
  /\ IdleOthers

SpecParams == ParamInit /\ [][Next]_vars

\* the temperature, max-token and top-p values a payload carries
SentParams(payload) ==
  CASE payload.api = "openai" -> Config(NULL, payload.temperature, payload.max_tokens, payload.top_p)
    [] payload.api = "deepseek" -> Config(NULL, payload.temperature, payload.max_tokens, payload.top_p)
    [] payload.api = "google" -> Config(NULL, payload.temperature, payload.maxOutputTokens, payload.topP)
    [] payload.api = "ollama" -> Config(NULL, payload.temperature, payload.num_predict, payload.top_p)

ParamsOf(call) ==
  IF adapter = "huggingface"
  THEN Config(NULL, call.payload.parameters.temperature,
              call.payload.parameters.max_new_tokens, call.payload.parameters.top_p)
  ELSE SentParams(call.payload)

\* the per-call override when present, otherwise the instance value
Configured(field) ==
  IF req.options[field] # Unset THEN req.options[field] ELSE instCfg[field]

\* C18: every backend request carries, for temperature, max tokens and top-p,
\* the per-call override when there is one and the instance value otherwise;
\* a default of the backend stands in only for a field set in neither; a
\* configured 0 is sent as 0.
C18_ConfiguredParametersAreSent ==
  \A i \in 1..Len(calls) : \A field \in {"temperature", "maxTokens", "topP"} :
    Configured(field) # Unset => ParamsOf(calls[i])[field] = Configured(field)

(***************************************************************************)
(* C19: the API key and the base URL of a request                          *)
(***************************************************************************)
\* the error getApiKey throws
MissingKeyError(a) ==
  PlainError(<<ProviderName(a), "API key is required.",
               "Please provide it via the 'apiKey' option or set the",
               EnvKeyName(a), "environment variable.">>)

CredentialSets ==
  {Credentials(KeyAndUrl(ok, ou), KeyAndUrl(ck, cu), KeyAndUrl(ek, eu)) :
     ok \in {NULL, "opt-key"}, ou \in {NULL, "https://opt.example"},
     ck \in {NULL, "cfg-key"}, cu \in {NULL, "https://cfg.example"},
     ek \in {NULL, "env-key"}, eu \in {NULL, "https://env.example"}}

CredRequests ==
  {Request(<<>>, img, FALSE, <<>>, fns, IF fns = <<>> THEN NoDirective ELSE Auto,
           NoOptions) :
     img \in {NULL, "a.png"}, fns \in FunctionLists}

\* the adapter is constructed with creds.cfg in the environment creds.env,
\* then generate is called with creds.opt in request.options
CredInit ==
  /\ adapter \in {"huggingface", "openai", "google", "deepseek", "ollama"}
  /\ instCfg = Config(NULL, Unset, Unset, Unset)
  /\ req \in CredRequests
  /\ adapter = "huggingface" => req.functions = <<>>
  /\ creds \in CredentialSets
  /\ IF ConstructorThrows(adapter, creds)
     THEN pc = "failed" /\ outcome = Rejected(MissingKeyError(adapter))
     ELSE pc = "start" /\ outcome = PendingOutcome
  /\ calls = <<>>
  /\ errors = <<>>
  /\ events = <<>>
  /\ IdleExtractor
  /\ stream = NoStream
  /\ parked = NoParked
  /\ util = NoRun

SpecCreds == CredInit /\ [][Next]_vars

\* the first of the sources that is set, NULL when none is
FirstSet(sources) ==
  LET set == SelectSeq(sources, LAMBDA x : x # NULL)
  IN  IF set = <<>> THEN NULL ELSE Head(set)

ResolvedKey == FirstSet(<<creds.opt.apiKey, creds.cfg.apiKey, creds.env.apiKey>>)

ResolvedUrl ==
  FirstSet(<<creds.opt.baseURL, creds.cfg.baseURL, creds.env.baseURL,
             DefaultUrl(adapter)>>)

\* neither the options nor the config name a URL and the adapter hands the
\* choice to the client library of the backend
UrlLeftToTheClient ==
  /\ adapter \in {"openai", "google"}
  /\ creds.opt.baseURL = NULL
  /\ creds.cfg.baseURL = NULL

\* C19: every backend request of a generate call is sent with the API key
\* and to the base URL found first among the per-call options, the instance
\* configuration, the environment variable and, for the URL, the hardcoded
\* default; without any key the failure names the environment variable.
C19_KeyAndUrlResolvedInOrder ==
  /\ \A i \in 1..Len(events) : events[i].op = "post" =>
       /\ adapter # "ollama" => events[i].key = ResolvedKey
       /\ ~UrlLeftToTheClient => events[i].url = ResolvedUrl
  /\ (adapter # "ollama" /\ ResolvedKey = NULL) =>
       /\ outcome.state = "rejected"
       /\ Includes(outcome.error.message, EnvKeyName(adapter))
       /\ calls = <<>>

(***************************************************************************)
(* C20: two calls on one instance                                          *)
(***************************************************************************)
\* the payload of backend request number k of a call with request r on an
\* instance constructed with built
OwnPayload(a, built, r, k, format) ==
  LET config == MergeConfig(built, r.options)
  IN  CASE a = "openai" -> OpenAIPayload(r, config)
        [] a = "deepseek" -> DeepSeekPayload(r, config)
        [] a = "ollama" -> OllamaCreateRequestPayload(r, config)
        [] a = "google" ->
             GooglePayload(config,
               IF HasFunctions(r) /\ k = 1
               THEN PartsContent(<<TextItem(GoogleEnhancedPrompt(r))>>)
               ELSE PartsContent(GoogleFormatMultiModalContent(r)))
        [] a = "huggingface" ->
             CASE format = "text" -> HFTextPayload(r, config)
               [] format = "nested" -> HFNestedPayload(r, config)
               [] format = "flat" -> HFFlatPayload(r, config)
               [] format = "multipart" -> HFMultipartPayload(r, config)

\* the requests of a call were built from its own request and the
\* configuration the instance was constructed with, and its result comes
\* from its own last reply
CallIsItsOwn(r, sent, out, built) ==
  /\ \A k \in 1..Len(sent) :
       sent[k].payload =
         OwnPayload(adapter, built, r, k,
                    IF adapter = "huggingface" THEN sent[k].payload.format ELSE "")
  /\ out.state = "resolved" =>
       /\ sent # <<>>
       /\ sent[Len(sent)].reply.ok
       /\ adapter # "ollama" => out.response.raw = sent[Len(sent)].reply.data
  /\ (out.state = "rejected" /\ sent # <<>> /\ ~sent[Len(sent)].reply.ok
        /\ adapter \in {"openai", "deepseek", "google"}) =>
       out.error = sent[Len(sent)].reply.error

ToolFunctionLists ==
  {<<>>, <<"getWeather">>, <<"getWeather", "calculator">>,
   <<"calculator", "getWeather">>}

ToolRequests ==
  {Request(<<>>, NULL, FALSE, <<>>, fns, d, NoOptions) :
     fns \in ToolFunctionLists,
     d \in {NoDirective, Auto, Forbid, Force("getWeather")}}

OpenAIToolsInit ==
  /\ adapter = "openai"
  /\ instCfg \in Configs
  /\ req \in ToolRequests
  /\ pc = "start"
  /\ calls = <<>>
  /\ errors = <<>>
  /\ outcome = PendingOutcome
  /\ events = <<>>
  /\ IdleExtractor
  /\ IdleOthers

SpecOpenAI == OpenAIToolsInit /\ [][OpenAIGenerate]_vars

\* what the claim names for each directive
ToolChoiceFor(directive) ==
  CASE directive = Auto -> "auto"
    [] directive = Forbid -> "none"
    [] directive.kind = "forced" -> directive.name
    [] OTHER -> "undefined"

\* C21: an OpenAI request with a non-empty function list carries one tool
\* per function, in the order of the list, and the tool_choice of its
\* directive (auto, none, the forced function, none sent without directive);
\* without functions it carries neither tools nor tool_choice, whatever the
\* directive.
C21_ToolsFollowTheFunctionList ==
  \A i \in 1..Len(calls) : adapter = "openai" =>
    LET sent == calls[i].payload.options
    IN  IF req.functions # <<>>
        THEN /\ Len(sent.tools) = Len(req.functions)
             /\ \A j \in 1..Len(req.functions) :
                  /\ sent.tools[j].type = "function"
                  /\ sent.tools[j].function = req.functions[j]
             /\ sent.tool_choice = ToolChoiceFor(req.functionCall)
        ELSE /\ sent.tools = <<>>
             /\ sent.tool_choice = "undefined"

\* a request with two functions and a forced one has been sent
C21_Witness ==
  /\ adapter = "openai"
  /\ Len(calls) = 1
  /\ req.functions = <<"calculator", "getWeather">>
  /\ req.functionCall = Force("getWeather")
  /\ calls[1].payload.options.tool_choice = "getWeather"

(***************************************************************************)
(* processImage on written-out sources.  A path or URL is a sequence of    *)
(* pieces: "/", ".", "?", "=" and words; the content of an image is a      *)
(* sequence of bytes.                                                      *)
(***************************************************************************)
\* an image: a Buffer, a local file or a URL; name and ext make the file
\* name, query follows it in a URL
ImageInput(kind, ext, query, bytes, reachable) ==
  [kind |-> kind, ext |-> ext, query |-> query, bytes |-> bytes,
   reachable |-> reachable]

\* the string handed to processImage
WrittenSource(input) ==
  (IF input.kind = "url" THEN <<"https:", "/", "/", "host", "/">>
   ELSE <<"/", "tmp", "/">>)
  \o <<"photo">>
  \o (IF input.ext = NULL THEN <<>> ELSE <<".", input.ext>>)
  \o input.query

RECURSIVE LastIndexOf(_, _, _)
LastIndexOf(s, piece, i) ==
  IF i < 1 THEN 0 ELSE IF s[i] = piece THEN i ELSE LastIndexOf(s, piece, i - 1)

\* path.extname: from the last "." of the last segment to the end of the
\* string; nothing when the segment has no "." or only starts with one
PathExtname(p) ==
  LET slash == LastIndexOf(p, "/", Len(p))
      dot == LastIndexOf(p, ".", Len(p))
  IN  IF dot <= slash + 1 THEN <<>> ELSE SubSeq(p, dot, Len(p))

\* String.prototype.toLowerCase on the pieces
LowerPiece(w) ==
  CASE w = "PNG" -> "png"
    [] w = "JPG" -> "jpg"
    [] w = "Gif" -> "gif"
    [] OTHER -> w

ToLowerPieces(p) == [i \in 1..Len(p) |-> LowerPiece(p[i])]

\* getMimeType: the switch over the extension
MimeTypeOfPath(p) ==
  LET ext == ToLowerPieces(PathExtname(p))
  IN  CASE ext \in {<<".", "jpg">>, <<".", "jpeg">>} -> "image/jpeg"
        [] ext = <<".", "png">> -> "image/png"
        [] ext = <<".", "gif">> -> "image/gif"
        [] ext = <<".", "webp">> -> "image/webp"
        [] ext = <<".", "bmp">> -> "image/bmp"
        [] ext = <<".", "svg">> -> "image/svg+xml"
        [] OTHER -> "image/jpeg"

\* Buffer.toString("base64"): sextets 0..63, and 64 for the padding "="
RECURSIVE ToBase64(_)
ToBase64(b) ==
  IF b = <<>> THEN <<>>
  ELSE IF Len(b) = 1
  THEN <<b[1] \div 4, (b[1] % 4) * 16, 64, 64>>
  ELSE IF Len(b) = 2
  THEN <<b[1] \div 4, (b[1] % 4) * 16 + b[2] \div 16, (b[2] % 16) * 4, 64>>
  ELSE <<b[1] \div 4, (b[1] % 4) * 16 + b[2] \div 16,
         (b[2] % 16) * 4 + b[3] \div 64, b[3] % 64>>
       \o ToBase64(SubSeq(b, 4, Len(b)))

Returned(v) == [state |-> "returned", value |-> v]
Thrown(msg) == [state |-> "thrown", value |-> msg]

\* processImage: imageToBase64, then the MIME type of a string source
ProcessImageSource(input) ==
  IF input.kind = "buffer"
  THEN Returned([base64 |-> ToBase64(input.bytes), mimeType |-> "image/jpeg"])
  ELSE IF input.kind = "url"
  THEN IF input.reachable
       THEN Returned([base64 |-> ToBase64(input.bytes),
                      mimeType |-> MimeTypeOfPath(WrittenSource(input))])
       ELSE Thrown("Failed to fetch image from URL")
  ELSE IF input.reachable
       THEN Returned([base64 |-> ToBase64(input.bytes),
                      mimeType |-> MimeTypeOfPath(WrittenSource(input))])
       ELSE Thrown("Invalid image source. Must be URL, file path, or Buffer")

Extensions == {NULL, "png", "PNG", "jpg", "JPG", "jpeg", "Gif", "webp", "bmp",
               "svg", "txt"}

Queries == {<<>>, <<"?", "size", "=", "large">>, <<"?", "v", "=", "1", ".", "2">>}

ImageBytes == {<<>>, <<255>>, <<137, 80>>, <<137, 80, 78>>, <<137, 80, 78, 71>>}

ImageInputs ==
  {ImageInput("buffer", NULL, <<>>, b, TRUE) : b \in ImageBytes}
    \cup {ImageInput("file", e, <<>>, b, r) :
            e \in Extensions, b \in ImageBytes, r \in BOOLEAN}
    \cup {ImageInput("url", e, q, b, r) :
            e \in Extensions, q \in Queries, b \in {<<137, 80, 78>>},
            r \in BOOLEAN}

ImageInit ==
  /\ IdleCall
  /\ IdleExtractor
  /\ stream = NoStream
  /\ creds = DefaultCreds
  /\ parked = NoParked
  /\ util \in {[fn |-> "processImage", input |-> i, state |-> "called",
                value |-> NULL] : i \in ImageInputs}

ProcessImageRuns ==
  /\ util.fn = "processImage"
  /\ util.state = "called"
  /\ LET r == ProcessImageSource(util.input)
     IN  util' = [util EXCEPT !.state = r.state, !.value = r.value]
  /\ UNCHANGED <<callVars, exVars, stream, creds, parked>>

SpecImage == ImageInit /\ [][ProcessImageRuns]_vars

\* the table of the claim, on the extension of the file name
MimeOfExtension(ext) ==
  CASE ext \in {"jpg", "JPG", "jpeg"} -> "image/jpeg"
    [] ext \in {"png", "PNG"} -> "image/png"
    [] ext = "Gif" -> "image/gif"
    [] ext = "webp" -> "image/webp"
    [] ext = "bmp" -> "image/bmp"
    [] ext = "svg" -> "image/svg+xml"
    [] OTHER -> "image/jpeg"

\* C22: a resolved image carries the MIME type the extension table gives for
\* the extension of its file name, compared without regard to case, also for
\* a URL with a query string after the file name; image/jpeg for an unknown
\* or missing extension and for a Buffer; and the base64 of a Buffer and of
\* a file with the same bytes are the same.
C22_MimeTypeFollowsTheExtension ==
  (util.fn = "processImage" /\ util.state = "returned") =>
    /\ util.value.mimeType =
         (IF util.input.kind = "buffer" THEN "image/jpeg"
          ELSE MimeOfExtension(util.input.ext))
    /\ util.value.base64 = ToBase64(util.input.bytes)
    /\ Len(util.value.base64) = 4 * ((Len(util.input.bytes) + 2) \div 3)

(***************************************************************************)
(* NeuralAI.createModel                                                    *)
(***************************************************************************)
\* new <class>(config): the constructor of the adapter with that provider
\* tag; built lists the constructors that ran
NewModel(class, provider, c) ==
  IF ConstructorThrows(provider, c)
  THEN [state |-> "thrown", value |-> MissingKeyError(provider).message,
        built |-> <<class>>]
  ELSE [state |-> "returned",
        value |-> [class |-> class, provider |-> provider,
                   baseURL |-> GetBaseUrl(c.cfg.baseURL, c.env.baseURL,
                                          DefaultUrl(provider))],
        built |-> <<class>>]

\* the default branch taken for the last provider of the switch
CreateModelWithoutLastCase(provider, c) ==
  CASE provider = "openai" -> NewModel("OpenAIModel", "openai", c)
    [] provider = "google" -> NewModel("GoogleModel", "google", c)
    [] provider = "deepseek" -> NewModel("DeepSeekModel", "deepseek", c)
    [] provider = "ollama" -> NewModel("OllamaModel", "ollama", c)
    [] OTHER -> [state |-> "thrown",
                 value |-> <<"Unsupported AI provider:", provider>>,
                 built |-> <<>>]

\* createModel: the switch over the provider tag
CreateModel(provider, c) ==
  CASE provider = "openai" -> NewModel("OpenAIModel", "openai", c)
    [] provider = "google" -> NewModel("GoogleModel", "google", c)
    [] provider = "deepseek" -> NewModel("DeepSeekModel", "deepseek", c)
    [] provider = "ollama" -> NewModel("OllamaModel", "ollama", c)
    [] provider = "huggingface" -> NewModel("HuggingFaceModel", "huggingface", c)
    [] OTHER -> [state |-> "thrown",
                 value |-> <<"Unsupported AI provider:", provider>>,
                 built |-> <<>>]

ProviderTags ==
  {"openai", "google", "deepseek", "ollama", "huggingface",
   "unsupported-provider", "OPENAI", ""}

FacadeInit ==
  /\ IdleCall
  /\ IdleExtractor
  /\ stream = NoStream
  /\ creds \in CredentialSets
  /\ parked = NoParked
  /\ util \in {[fn |-> "createModel", input |-> t, state |-> "called",
                value |-> <<>>, built |-> <<>>] : t \in ProviderTags}

CreateModelRuns ==
  /\ util.fn = "createModel"
  /\ util.state = "called"
  /\ LET r == CreateModel(util.input, creds)
     IN  util' = [util EXCEPT !.state = r.state, !.value = r.value,
                              !.built = r.built]
  /\ UNCHANGED <<callVars, exVars, stream, creds, parked>>

SpecFacade == FacadeInit /\ [][CreateModelRuns]_vars

\* the adapter class of each provider tag
ClassOf(tag) ==
  CASE tag = "openai" -> "OpenAIModel"
    [] tag = "google" -> "GoogleModel"
    [] tag = "deepseek" -> "DeepSeekModel"
    [] tag = "ollama" -> "OllamaModel"
    [] tag = "huggingface" -> "HuggingFaceModel"

NamesOf(matches, list) ==
  /\ Len(list) = Len(matches)
  /\ \A i \in 1..Len(matches) : list[i].name = matches[i].name

BareParis == <<LB, S("location"), COLON, S("Paris"), RB>>

\* C24: the Ollama extractor returns the calls of the first pattern that
\* matches, in the order name/arguments envelope, identifier({...}) call
\* syntax, the forced function's bare parameter shape, the loose forced-name
\* envelope; the last two are consulted only for a forced function and when
\* the first two matched nothing; a bare {"location": L} with getWeather
\* forced gives one getWeather call with unit "celsius".
C24_FirstMatchingPatternWins ==
  (exOllama.state = "done" /\ exText # <<>>) =>
    LET fixed == TryFixIncompleteJSON(exText, FALSE)
        m1 == JsonMatches(fixed, 1)
        m2 == FunctionMatches(fixed, 1)
        res == exOllama.result
        forced == exDirective.kind = "forced"
    IN  /\ Len(m1) > 0 => res.defined /\ NamesOf(m1, res.list)
        /\ (Len(m1) = 0 /\ Len(m2) > 0) =>
             /\ res.defined /\ NamesOf(m2, res.list)
             /\ \A i \in 1..Len(m2) :
                  LET written == Slice(fixed, m2[i].from, m2[i].to)
                  IN  /\ Head(res.list[i].arguments) = LB
                      /\ IsJSON(written) => res.list[i].arguments = written
        /\ (Len(m1) = 0 /\ Len(m2) = 0 /\ ~forced) => res = NoCalls
        /\ (Len(m1) = 0 /\ Len(m2) = 0 /\ forced) =>
             IF exDirective.name = "getWeather" /\ FirstWeather(fixed) # 0
             THEN LET wm == WeatherRegexAt(fixed, FirstWeather(fixed))
                  IN  res = Calls(<<Call("getWeather",
                              WeatherArguments(wm.location,
                                IF wm.unit # "" THEN wm.unit ELSE "celsius"))>>)
             ELSE IF exDirective.name = "calculator" /\ FirstCalculator(fixed) # 0
             THEN /\ Len(res.list) = 1
                  /\ res.list[1].name = "calculator"
             ELSE IF FirstForcedName(fixed, exDirective.name) # 0
             THEN /\ Len(res.list) = 1
                  /\ res.list[1].name = exDirective.name
             ELSE res = NoCalls
        /\ (exText = BareParis /\ exDirective = Force("getWeather")) =>
             res = Calls(<<Call("getWeather", WeatherArguments("Paris", "celsius"))>>)

\* the bare location object has been read with getWeather forced
C24_Witness ==
  /\ exOllama.state = "done"
  /\ exText = BareParis
  /\ exDirective = Force("getWeather")
  /\ exOllama.result.defined

\* ------------------------------------------------------------------------
\* Ollama: the text of a streamed reply

\* the content field the endpoint reads from a line of the reply body
ContentOf(endpoint, line) == IF endpoint = "chat" THEN line.chat ELSE line.generate

\* the content fields of all lines of the reply body, in order
AllContent(endpoint, lines) ==
  Flatten([i \in 1..Len(lines) |-> ContentOf(endpoint, lines[i])])

OllamaAnswered ==
  /\ adapter = "ollama"
  /\ outcome.state = "resolved"
  /\ calls # <<>>

\* C25: the text Ollama generate returns is the in-order concatenation of
\* the content fields (message.content for the chat endpoint, response for
\* the generate endpoint) of all lines of the backend reply, however the
\* transport cuts the reply body into chunks, cuts in the middle of a line
\* included.
C25_TextIsTheContentOfAllLines ==
  OllamaAnswered =>
    LET call == calls[Len(calls)]
    IN  outcome.response.text =
          Str(AllContent(call.payload.endpoint, call.reply.data.lines))

\* ------------------------------------------------------------------------
\* Requests without function definitions

\* C26: a request that supplies no function definitions gets a response
\* without functionCalls, on every adapter and whatever the generated text
\* holds (JSON objects and call-like syntax included).
C26_NoFunctionsNoFunctionCalls ==
  (adapter # "none" /\ outcome.state = "resolved" /\ ~HasFunctions(req))
    => ~outcome.response.functionCalls.defined

\* ------------------------------------------------------------------------
\* Google: the images of a request

\* the images of the request as the backend is to receive them
RequestImages(r) ==
  LET srcs == ContentThenOwn(r) IN [i \in 1..Len(srcs) |-> Base64(srcs[i])]

GoogleAnswered ==
  /\ adapter = "google"
  /\ outcome.state = "resolved"
  /\ calls # <<>>

\* C27: the call whose response Google generate returns carries every image
\* of the request (each content image and the convenience image) as an
\* inlineData part, whether or not the request has function definitions.
C27_GoogleSendsEveryImage ==
  GoogleAnswered =>
    ItemImages(calls[Len(calls)].payload.content.parts) = RequestImages(req)

\* ------------------------------------------------------------------------
\* Extractors: one object, one call

\* o is a function-call object: JSON of the form
\* {"name": ..., "arguments": {...}}
IsCallObject(o) ==
  /\ Len(o) > Len(EnvelopeHead) + 1
  /\ SubSeq(o, 1, Len(EnvelopeHead)) = EnvelopeHead
  /\ o[Len(EnvelopeHead) + 1] = LB
  /\ IsJSON(o)

NoBraces(s) == ~Includes(s, LB) /\ ~Includes(s, RB)

\* the text holds one function-call object and no other braces: the object
\* alone, after some words, or inside a fenced code block
HoldsOneCallObject(text) ==
  \E a \in 1..Len(text) : \E b \in a..Len(text) :
    /\ IsCallObject(SubSeq(text, a, b))
    /\ NoBraces(Slice(text, 1, a - 1))
    /\ NoBraces(Slice(text, b + 1, Len(text)))

OneCall(ex) ==
  (ex.state = "done" /\ HoldsOneCallObject(exText))
    => ex.result.defined /\ Len(ex.result.list) = 1

\* C28: the HuggingFace and the Google extractor report a single
\* function-call object of the text as exactly one FunctionCall, never twice
\* because two patterns both match it (as for a name/arguments object inside
\* a fenced json code block).
C28_OneObjectIsReportedOnce == OneCall(exHF) /\ OneCall(exGoogle)

\* ------------------------------------------------------------------------
\* functionCalls of a response

\* C29: in every response generate returns, on any adapter, functionCalls is
\* absent (undefined) or a non-empty list, never an empty list.
C29_FunctionCallsAbsentOrNonEmpty ==
  (adapter # "none" /\ outcome.state = "resolved" /\ outcome.response.functionCalls.defined)
    => Len(outcome.response.functionCalls.list) > 0

\* ------------------------------------------------------------------------
\* Ollama: the max-token limit

\* C30: when the effective Ollama configuration has a max-token limit, every
\* payload sent to the backend carries it as num_predict, in the flat prompt
\* shape of the generate endpoint and in the messages shape of the chat
\* endpoint alike.
C30_OllamaSendsNumPredict ==
  (adapter = "ollama" /\ Configured("maxTokens") # Unset) =>
    \A i \in 1..Len(calls) :
      calls[i].payload.num_predict = Configured("maxTokens")

====
